---- MODULE Spec2Model ----
(***************************************************************************)
(* Model of the Obsidian pre-prompt hook (hooks/obsidian-preprompt.js):    *)
(* the per-day snapshot cache, the delta extractor, the structural         *)
(* truncator and the token-budget assembler.                               *)
(*                                                                         *)
(* Text model.  A JavaScript string is a sequence of atoms.  An atom is a  *)
(* TLA+ string standing for one or more characters that no operation of    *)
(* the hook ever separates:                                                *)
(*   - a single character ("a", " ", "#", "[", a line feed, ...);          *)
(*   - a run "x{n}" of n copies of the letter x (a word character: the     *)
(*     regular expressions of the hook are greedy over word characters and *)
(*     every cut the hook makes is at a line feed or at white space, so a  *)
(*     run is always taken or left whole);                                 *)
(*   - a literal of the program text ("## Recent Snapshot", ...), which    *)
(*     the notes of the model cannot spell.                                *)
(* Width gives the number of characters of an atom, so every length and    *)
(* every budget is counted in characters, with the program's own           *)
(* constants.                                                              *)
(***************************************************************************)
EXTENDS Integers, Sequences, FiniteSets, TLC

\* The runs of the letter x the inputs are built from, with their widths.
RunWidth ==
  ("x{30}" :> 30) @@ ("x{3978}" :> 3978) @@ ("x{4751}" :> 4751) @@
  ("x{5000}" :> 5000) @@ ("x{7176}" :> 7176)

Width(a) == IF a \in DOMAIN RunWidth THEN RunWidth[a] ELSE Len(a)

RECURSIVE Chars(_)
\* String.prototype.length: the widths of the atoms, summed by halves.
Chars(s) ==
  IF Len(s) = 0 THEN 0
  ELSE IF Len(s) = 1 THEN Width(s[1])
  ELSE LET h == Len(s) \div 2
       IN  Chars(SubSeq(s, 1, h)) + Chars(SubSeq(s, h + 1, Len(s)))

LF == "\n"
CR == "\r"

\* White space as \s and String.prototype.trim see it.
IsWs(a) == a \in {" ", LF, CR, "\t"}

\* String.prototype.trimStart
TrimLeft(s) ==
  IF \A i \in 1..Len(s) : IsWs(s[i]) THEN <<>>
  ELSE LET k == CHOOSE k \in 1..Len(s) :
                  ~IsWs(s[k]) /\ \A j \in 1..(k - 1) : IsWs(s[j])
       IN  SubSeq(s, k, Len(s))

\* String.prototype.trimEnd
TrimRight(s) ==
  IF \A i \in 1..Len(s) : IsWs(s[i]) THEN <<>>
  ELSE LET k == CHOOSE k \in 1..Len(s) :
                  ~IsWs(s[k]) /\ \A j \in (k + 1)..Len(s) : IsWs(s[j])
       IN  SubSeq(s, 1, k)

\* String.prototype.trim
Trim(s) == TrimRight(TrimLeft(s))

\* .replace(/\r\n?/g, '\n'): a line feed that follows a carriage return goes,
\* and every carriage return becomes a line feed.
NormalizeEol(s) ==
  LET paired == [i \in 1..Len(s) |-> <<s[i], IF i > 1 THEN s[i - 1] ELSE "">>]
      kept == SelectSeq(paired, LAMBDA p : ~(p[1] = LF /\ p[2] = CR))
  IN  [i \in 1..Len(kept) |-> IF kept[i][1] = CR THEN LF ELSE kept[i][1]]

RECURSIVE Split(_)
\* .split('\n'): the empty string has one (empty) line.
Split(s) ==
  IF \A i \in 1..Len(s) : s[i] # LF THEN <<s>>
  ELSE LET i == CHOOSE k \in 1..Len(s) :
                  s[k] = LF /\ \A j \in 1..(k - 1) : s[j] # LF
       IN  <<SubSeq(s, 1, i - 1)>> \o Split(SubSeq(s, i + 1, Len(s)))

RECURSIVE Join(_, _)
\* Array.prototype.join
Join(parts, sep) ==
  IF parts = <<>> THEN <<>>
  ELSE IF Len(parts) = 1 THEN parts[1]
  ELSE parts[1] \o sep \o Join(Tail(parts), sep)

\* A list kept as it is, repetitions included.
KeepAll(list) == list

RECURSIVE Dedup(_)
\* Array.from(new Set(list)): first occurrences, in order.
Dedup(list) ==
  IF list = <<>> THEN <<>>
  ELSE LET rest == Dedup(SubSeq(list, 1, Len(list) - 1))
           last == list[Len(list)]
       IN  IF \E i \in 1..Len(rest) : rest[i] = last THEN rest
           ELSE Append(rest, last)

RECURSIVE FilterEmpty(_)
\* parts.filter(Boolean) on an array of strings
FilterEmpty(parts) ==
  IF parts = <<>> THEN <<>>
  ELSE IF Head(parts) = <<>> THEN FilterEmpty(Tail(parts))
  ELSE <<Head(parts)>> \o FilterEmpty(Tail(parts))

\* Whether needle occurs in hay as a contiguous substring.
Includes(hay, needle) ==
  \E i \in 0..(Len(hay) - Len(needle)) :
    \A j \in 1..Len(needle) : hay[i + j] = needle[j]

\* estimateTokens: Math.ceil(length / 4)
estimateTokens(text) == (Chars(text) + 3) \div 4

MAX_SNAPSHOT_CHARS == 12000
MAX_SNAPSHOT_TOKENS == (MAX_SNAPSHOT_CHARS + 3) \div 4
\* Math.floor(MAX_SNAPSHOT_TOKENS * 0.4) and Math.floor(MAX_SNAPSHOT_TOKENS * 0.6)
GOVERNANCE_TOKEN_BUDGET == (MAX_SNAPSHOT_TOKENS * 4) \div 10
DAILY_TOKEN_BUDGET == (MAX_SNAPSHOT_TOKENS * 6) \div 10

(***************************************************************************)
(* The structural truncator.                                               *)
(***************************************************************************)

\* The letters, digits and runs the notes use: [A-Za-z0-9].
Alnum ==
  {"a", "b", "c", "d", "e", "t", "x", "X", "H", "Safety", "NEVER", "ALWAYS"}
    \cup DOMAIN RunWidth

\* [A-Za-z0-9_\/-]
IsTagChar(a) == a \in Alnum \cup {"_", "/", "-"}

\* The end of the match of /!?\[\[[^\]]+\]\]/ that starts at i, or 0.
LinkEnd(s, i) ==
  LET j == IF s[i] = "!" THEN i + 1 ELSE i
  IN  IF j + 1 <= Len(s) /\ s[j] = "[" /\ s[j + 1] = "["
         /\ \E k \in (j + 2)..Len(s) : s[k] = "]"
      THEN LET k == CHOOSE k \in (j + 2)..Len(s) :
                      s[k] = "]" /\ \A m \in (j + 2)..(k - 1) : s[m] # "]"
           IN  IF k > j + 2 /\ k + 1 <= Len(s) /\ s[k + 1] = "]"
               THEN k + 1 ELSE 0
      ELSE 0

RECURSIVE LinksFrom(_, _)
\* The matches of the global search from i on, left to right.
LinksFrom(s, i) ==
  IF \A k \in i..Len(s) : LinkEnd(s, k) = 0 THEN <<>>
  ELSE LET k == CHOOSE k \in i..Len(s) :
                  LinkEnd(s, k) > 0 /\ \A j \in i..(k - 1) : LinkEnd(s, j) = 0
       IN  <<SubSeq(s, k, LinkEnd(s, k))>> \o LinksFrom(s, LinkEnd(s, k) + 1)

extractWikilinks(text) == Dedup(LinksFrom(text, 1))

\* The last index of the run of tag characters that starts at i (i - 1 if none).
TagCharsEnd(s, i) ==
  CHOOSE e \in (i - 1)..Len(s) :
    /\ \A j \in i..e : IsTagChar(s[j])
    /\ (e = Len(s) \/ ~IsTagChar(s[e + 1]))

\* The match of /(^|\s)(#[A-Za-z0-9_\/-]+)/gim that starts at i:
\* <<first index of the '#', last index>>, or <<0, 0>>.
TagAt(s, i) ==
  LET atStart == i = 1 \/ s[i - 1] = LF
      h == IF atStart /\ s[i] = "#" THEN i
           ELSE IF IsWs(s[i]) /\ i + 1 <= Len(s) /\ s[i + 1] = "#" THEN i + 1
           ELSE 0
  IN  IF h > 0 /\ TagCharsEnd(s, h + 1) > h
      THEN <<h, TagCharsEnd(s, h + 1)>> ELSE <<0, 0>>

RECURSIVE TagsFrom(_, _)
\* The matches of the global search from i on, each after
\* matches.map((m) => m.trim()): the white space before the '#' is dropped.
TagsFrom(s, i) ==
  IF \A k \in i..Len(s) : TagAt(s, k)[1] = 0 THEN <<>>
  ELSE LET k == CHOOSE k \in i..Len(s) :
                  TagAt(s, k)[1] > 0 /\ \A j \in i..(k - 1) : TagAt(s, j)[1] = 0
           m == TagAt(s, k)
       IN  <<SubSeq(s, m[1], m[2])>> \o TagsFrom(s, m[2] + 1)

extractTags(text) == Dedup(TagsFrom(text, 1))

\* /^\s*- \[( |x|X)\]\s/.test(line)
IsTaskLine(line) ==
  LET body == TrimLeft(line)
  IN  /\ Len(body) >= 6
      /\ body[1] = "-" /\ body[2] = " " /\ body[3] = "["
      /\ body[4] \in {" ", "x", "X"}
      /\ body[5] = "]" /\ IsWs(body[6])

RECURSIVE extractTaskLines(_)
\* lines.filter((line) => /^\s*- \[( |x|X)\]\s/.test(line))
extractTaskLines(lines) ==
  IF lines = <<>> THEN <<>>
  ELSE IF IsTaskLine(Head(lines))
       THEN <<Head(lines)>> \o extractTaskLines(Tail(lines))
       ELSE extractTaskLines(Tail(lines))

RECURSIVE MarkerCount(_, _)
\* (line.match(/%%/g) || []).length from i on: the matches do not overlap.
MarkerCount(line, i) ==
  LET At(k) == line[k] = "%" /\ line[k + 1] = "%"
  IN  IF \A k \in i..(Len(line) - 1) : ~At(k) THEN 0
      ELSE LET k == CHOOSE k \in i..(Len(line) - 1) :
                      At(k) /\ \A j \in i..(k - 1) : ~At(j)
           IN  1 + MarkerCount(line, k + 2)

RECURSIVE CommentsFrom(_, _)
CommentsFrom(lines, inBlockComment) ==
  IF lines = <<>> THEN <<>>
  ELSE LET line == Head(lines)
           n == MarkerCount(line, 1)
       IN  IF n > 0
           THEN <<line>> \o CommentsFrom(Tail(lines),
                              IF n % 2 = 1 THEN ~inBlockComment ELSE inBlockComment)
           ELSE IF inBlockComment
                THEN <<line>> \o CommentsFrom(Tail(lines), inBlockComment)
                ELSE CommentsFrom(Tail(lines), inBlockComment)

extractCommentLines(lines) == CommentsFrom(lines, FALSE)

\* The number of '#' the line starts with.
HashCount(line) ==
  CHOOSE n \in 0..Len(line) :
    /\ \A j \in 1..n : line[j] = "#"
    /\ (n = Len(line) \/ line[n + 1] # "#")

\* /^#{1,6}\s/.test(line)
IsHeading(line) ==
  LET n == HashCount(line)
  IN  n >= 1 /\ n <= 6 /\ n + 1 <= Len(line) /\ IsWs(line[n + 1])

RECURSIVE HeadingsOf(_)
HeadingsOf(lines) ==
  IF lines = <<>> THEN <<>>
  ELSE IF IsHeading(Head(lines)) THEN <<Head(lines)>> \o HeadingsOf(Tail(lines))
  ELSE HeadingsOf(Tail(lines))

\* The heading lines at or before startIdx, in document order.
findHeadingContext(lines, startIdx) == HeadingsOf(SubSeq(lines, 1, startIdx))

RECURSIVE PickFrom(_, _, _, _)
\* The backward loop of clipFromTailByLine: the set of picked indices.  A line
\* that does not fit is skipped and the scan goes on to the lines before it.
PickFrom(lines, i, used, maxChars) ==
  IF i < 1 THEN {}
  ELSE LET cost == Chars(lines[i]) + 1
       IN  IF used + cost > maxChars
           THEN PickFrom(lines, i - 1, used, maxChars)
           ELSE {i} \cup PickFrom(lines, i - 1, used + cost, maxChars)

RECURSIVE PushUnseen(_, _, _)
\* result.push(line) for each line that is empty (when emptyAlways) or not seen.
PushUnseen(result, more, emptyAlways) ==
  IF more = <<>> THEN result
  ELSE LET line == Head(more)
           dup == \E i \in 1..Len(result) : result[i] = line
       IN  PushUnseen(IF (emptyAlways /\ line = <<>>) \/ ~dup
                      THEN Append(result, line) ELSE result,
                      Tail(more), emptyAlways)

RECURSIVE AtIndices(_, _, _)
\* The lines at the indices of picked, in ascending order.
AtIndices(lines, picked, i) ==
  IF i > Len(lines) THEN <<>>
  ELSE IF i \in picked THEN <<lines[i]>> \o AtIndices(lines, picked, i + 1)
  ELSE AtIndices(lines, picked, i + 1)

\* A clip that keeps the last characters that fit, wherever a line starts.
clipFromTailByChar(lines, maxChars) ==
  LET text == Join(lines, <<LF>>)
      fits == {n \in 0..Len(text) :
                 Chars(SubSeq(text, Len(text) - n + 1, Len(text))) <= maxChars}
      most == CHOOSE n \in fits : \A m \in fits : m <= n
  IN  Split(SubSeq(text, Len(text) - most + 1, Len(text)))

clipFromTailByLine(lines, maxChars) ==
  LET picked == PickFrom(lines, Len(lines), 0, maxChars)
  IN  IF picked = {} THEN <<>>
      ELSE LET startIdx == CHOOSE i \in picked : \A j \in picked : i <= j
               headingContext == findHeadingContext(lines, startIdx)
           IN  PushUnseen(PushUnseen(<<>>, headingContext, FALSE),
                          AtIndices(lines, picked, 1), TRUE)

RECURSIVE BoundFrom(_, _, _)
\* The final guard of buildObsidianSafeSnapshot: the lines that still fit.
BoundFrom(lines, used, maxChars) ==
  IF lines = <<>> THEN <<>>
  ELSE LET cost == Chars(Head(lines)) + 1
       IN  IF used + cost > maxChars
           THEN BoundFrom(Tail(lines), used, maxChars)
           ELSE <<Head(lines)>> \o BoundFrom(Tail(lines), used + cost, maxChars)

TruncatedMarker == <<"[Truncated safely by line boundaries to preserve Obsidian syntax]">>

\* The sections buildObsidianSafeSnapshot pushes, before filter(Boolean).
SnapshotParts(text, maxChars) ==
  LET lines == Split(text)
      clippedLines == clipFromTailByLine(lines, (maxChars * 65) \div 100)
      allTasks == extractTaskLines(lines)
      allLinks == extractWikilinks(text)
      allTags == extractTags(text)
      commentLines == extractCommentLines(lines)
  IN  <<<<"## Recent Snapshot">>, Trim(Join(clippedLines, <<LF>>))>>
      \o (IF allTasks # <<>>
          THEN <<<<"## Tasks (Preserved)">>, Join(allTasks, <<LF>>)>> ELSE <<>>)
      \o (IF allLinks # <<>>
          THEN <<<<"## Wikilinks (Graph Integrity)">>, Join(allLinks, <<" ">>)>> ELSE <<>>)
      \o (IF allTags # <<>>
          THEN <<<<"## Tags">>, Join(allTags, <<" ">>)>> ELSE <<>>)
      \o (IF commentLines # <<>>
          THEN <<<<"## Comments">>, Join(commentLines, <<LF>>)>> ELSE <<>>)

buildObsidianSafeSnapshot(raw, maxChars) ==
  LET text == Trim(NormalizeEol(raw))
  IN  IF text = <<>> THEN <<>>
      ELSE IF Chars(text) <= maxChars THEN text
      ELSE LET assembled ==
                 Trim(Join(FilterEmpty(SnapshotParts(text, maxChars)), <<LF, LF>>))
           IN  IF Chars(assembled) <= maxChars THEN assembled
               ELSE Trim(Join(BoundFrom(Split(assembled), 0, maxChars), <<LF>>))
                    \o <<LF, LF>> \o TruncatedMarker

(***************************************************************************)
(* The budget allocator and assembler.                                     *)
(***************************************************************************)

RECURSIVE KeepWhileFits(_, _, _)
\* The loop of trimTextToTokenBudget: it stops at the first line that does
\* not fit.
KeepWhileFits(lines, used, tokenBudget) ==
  IF lines = <<>> THEN <<>>
  ELSE LET cost == estimateTokens(Head(lines) \o <<LF>>)
       IN  IF used + cost > tokenBudget THEN <<>>
           ELSE <<Head(lines)>> \o KeepWhileFits(Tail(lines), used + cost, tokenBudget)

\* A trimmer that forgets the budget.
trimTextIgnoringBudget(text, tokenBudget) == Trim(NormalizeEol(text))

trimTextToTokenBudget(text, tokenBudget) ==
  LET normalized == Trim(NormalizeEol(text))
  IN  IF normalized = <<>> \/ tokenBudget <= 0 THEN <<>>
      ELSE IF estimateTokens(normalized) <= tokenBudget THEN normalized
      ELSE Trim(Join(KeepWhileFits(Split(normalized), 0, tokenBudget), <<LF>>))

\* '\n\n---\n\n'
Separator == <<LF, LF, "---", LF, LF>>

SinceHeader == <<"Since you last spoke:", LF>>

\* The delta block of buildTokenAwareSnapshot ('' when there is no delta).
DeltaBlock(deltaText, tokenBudget) ==
  IF deltaText # <<>>
  THEN trimTextToTokenBudget(SinceHeader \o deltaText, tokenBudget)
  ELSE <<>>

\* A composition that puts the snapshot first and the delta block after it.
buildSnapshotFirst(deltaText, fullSnapshot, tokenBudget) ==
  LET summaryBlock == IF fullSnapshot # <<>>
                      THEN trimTextToTokenBudget(fullSnapshot, tokenBudget) ELSE <<>>
      remaining == tokenBudget - estimateTokens(summaryBlock)
      deltaBlock == IF remaining > 0 THEN DeltaBlock(deltaText, remaining) ELSE <<>>
  IN  trimTextToTokenBudget(
        Join(FilterEmpty(<<summaryBlock, deltaBlock>>), Separator), tokenBudget)

buildTokenAwareSnapshot(deltaText, fullSnapshot, tokenBudget) ==
  LET deltaBlock == DeltaBlock(deltaText, tokenBudget)
      remaining == IF deltaBlock # <<>>
                   THEN tokenBudget - estimateTokens(deltaBlock) ELSE tokenBudget
      summaryBlock == IF fullSnapshot # <<>> /\ remaining > 0
                      THEN trimTextToTokenBudget(fullSnapshot, remaining) ELSE <<>>
  IN  trimTextToTokenBudget(
        Join(FilterEmpty(<<deltaBlock, summaryBlock>>), Separator), tokenBudget)

Min(a, b) == IF a <= b THEN a ELSE b

GovHeader == <<"# Behavioral Governance", LF>>
DailyHeader == <<"# Today's Context (from daily note)", LF>>

\* trimmedGov of buildUnifiedSnapshot ('' when there is no governance).
TrimmedGov(governanceContext) ==
  IF governanceContext # <<>>
  THEN trimTextToTokenBudget(governanceContext,
         Min(estimateTokens(governanceContext), GOVERNANCE_TOKEN_BUDGET))
  ELSE <<>>

\* trimmedDaily of buildUnifiedSnapshot ('' when the daily block is left out).
TrimmedDaily(dailyText, governanceContext, tokenBudget) ==
  LET trimmedGov == TrimmedGov(governanceContext)
      remaining == IF trimmedGov # <<>>
                   THEN tokenBudget - estimateTokens(GovHeader \o trimmedGov)
                   ELSE tokenBudget
  IN  IF dailyText # <<>> /\ remaining > 0
      THEN trimTextToTokenBudget(dailyText, Min(remaining, DAILY_TOKEN_BUDGET))
      ELSE <<>>

\* An assembler that gives the daily block the first place and the first
\* call on the budget.
buildDailyFirst(dailyText, governanceContext, tokenBudget) ==
  LET trimmedDaily == IF dailyText # <<>>
                      THEN trimTextToTokenBudget(dailyText,
                             Min(tokenBudget, DAILY_TOKEN_BUDGET))
                      ELSE <<>>
      trimmedGov == TrimmedGov(governanceContext)
  IN  Trim(Join(
        (IF trimmedDaily # <<>> THEN <<DailyHeader \o trimmedDaily>> ELSE <<>>)
        \o (IF trimmedGov # <<>> THEN <<GovHeader \o trimmedGov>> ELSE <<>>),
        Separator))

buildUnifiedSnapshot(dailyText, governanceContext, tokenBudget) ==
  LET trimmedGov == TrimmedGov(governanceContext)
      trimmedDaily == TrimmedDaily(dailyText, governanceContext, tokenBudget)
  IN  Trim(Join(
        (IF trimmedGov # <<>> THEN <<GovHeader \o trimmedGov>> ELSE <<>>)
        \o (IF trimmedDaily # <<>> THEN <<DailyHeader \o trimmedDaily>> ELSE <<>>),
        Separator))

(***************************************************************************)
(* The constraint extractor.  The letters of the model's notes spell no    *)
(* keyword, so a line holds a keyword exactly when it holds one of the     *)
(* word atoms below.                                                       *)
(***************************************************************************)

\* Word atoms whose lower case includes one of criticalKeywords.
CriticalWords == {"Safety", "NEVER", "ALWAYS"}
\* Word atoms whose upper case includes NEVER, ALWAYS or MANDATORY.
StrongWords == {"NEVER", "ALWAYS"}

\* criticalKeywords.some(kw => lowerLine.includes(kw))
HasCriticalKeyword(line) == \E i \in 1..Len(line) : line[i] \in CriticalWords

\* upperLine.includes('NEVER') || ... 'ALWAYS' || ... 'MANDATORY'
HasStrongKeyword(line) == \E i \in 1..Len(line) : line[i] \in StrongWords

\* line.match(/^(#{1,6})\s+(.+)$/): '.' matches no line terminator.
HeadingMatch(line) ==
  LET n == HashCount(line)
  IN  /\ n >= 1 /\ n <= 6
      /\ \E k \in 1..(Len(line) - n - 1) :
           /\ \A j \in (n + 1)..(n + k) : IsWs(line[j])
           /\ \A j \in (n + k + 1)..Len(line) : line[j] \notin {LF, CR}

\* line.match(/^\s*[-*]\s+/i)
IsBullet(line) ==
  LET body == TrimLeft(line)
  IN  Len(body) >= 2 /\ body[1] \in {"-", "*"} /\ IsWs(body[2])

\* One pass of the first loop of extractCriticalConstraints over a line.
SectionStep(acc, line) ==
  IF HeadingMatch(line)
  THEN [sections |-> IF acc.inCriticalSection /\ acc.currentContent # <<>>
                     THEN Append(acc.sections, Trim(Join(acc.currentContent, <<LF>>)))
                     ELSE acc.sections,
        currentContent |-> <<line>>,
        inCriticalSection |-> HasCriticalKeyword(line)]
  ELSE LET starts == IsBullet(line) /\ HasCriticalKeyword(line)
                     /\ ~acc.inCriticalSection
           content == IF starts THEN <<>> ELSE acc.currentContent
           inside == acc.inCriticalSection \/ starts
       IN  [sections |-> acc.sections,
            currentContent |-> IF inside THEN Append(content, line) ELSE content,
            inCriticalSection |-> inside]

RECURSIVE SectionScan(_, _)
SectionScan(acc, lines) ==
  IF lines = <<>> THEN acc
  ELSE SectionScan(SectionStep(acc, Head(lines)), Tail(lines))

\* criticalSections, each as its content.
CriticalSections(lines) ==
  LET acc == SectionScan([sections |-> <<>>, currentContent |-> <<>>,
                          inCriticalSection |-> FALSE], lines)
  IN  IF acc.inCriticalSection /\ acc.currentContent # <<>>
      THEN Append(acc.sections, Trim(Join(acc.currentContent, <<LF>>)))
      ELSE acc.sections

RECURSIVE StrongConstraints(_)
StrongConstraints(lines) ==
  IF lines = <<>> THEN <<>>
  ELSE LET line == Head(lines)
           t == Trim(line)
       IN  IF HasStrongKeyword(line) /\ t # <<>> /\ t[1] \in {"-", "*"}
           THEN <<t>> \o StrongConstraints(Tail(lines))
           ELSE StrongConstraints(Tail(lines))

extractCriticalConstraints(text) ==
  IF text = <<>> THEN <<>>
  ELSE LET lines == Split(text)
           strong == StrongConstraints(lines)
           parts == CriticalSections(lines)
                    \o (IF strong # <<>>
                        THEN <<<<"## Absolute Constraints">>>> \o Dedup(strong)
                        ELSE <<>>)
       IN  Trim(Join(parts, <<LF, LF>>))

\* The governance files in the order of their names.
GOVERNANCE_FILES_BY_NAME == <<"AGENTS.md", "MEMORY.md", "SOUL.md", "TOOLS.md">>

GOVERNANCE_FILES == <<"SOUL.md", "MEMORY.md", "AGENTS.md", "TOOLS.md">>

fileLabels ==
  [f \in {"SOUL.md", "MEMORY.md", "AGENTS.md", "TOOLS.md"} |->
     CASE f = "SOUL.md" -> "## Behavioral Constraints (SOUL)"
       [] f = "MEMORY.md" -> "## Long-Term Rules & Protocols (MEMORY)"
       [] f = "AGENTS.md" -> "## Operational Protocols (AGENTS)"
       [] f = "TOOLS.md" -> "## Tool Usage Patterns (TOOLS)"]

RECURSIVE GovernanceSections(_, _)
\* The sections of buildGovernanceContext, for the files from index i on.
GovernanceSections(governanceFiles, i) ==
  IF i > Len(GOVERNANCE_FILES) THEN <<>>
  ELSE LET filename == GOVERNANCE_FILES[i]
           critical == IF filename \in DOMAIN governanceFiles
                       THEN extractCriticalConstraints(governanceFiles[filename])
                       ELSE <<>>
       IN  (IF critical # <<>>
            THEN << <<fileLabels[filename], LF>> \o critical >> ELSE <<>>)
           \o GovernanceSections(governanceFiles, i + 1)

\* readGovernanceFiles gives the files in the order of GOVERNANCE_FILES.
buildGovernanceContext(governanceFiles) ==
  Join(GovernanceSections(governanceFiles, 1), <<LF, LF>>)

(***************************************************************************)
(* The bootstrap handler and the cache store.                              *)
(***************************************************************************)

\* The most lines a daily note of the model grows to.
MaxNoteLines == 2
\* The most bootstrap invocations of one behaviour; the clock counts them.
MaxRuns == 2
\* The most lines of an input of the truncator.
MaxTruncLines == 3
\* The most lines of a governance document given to the extractor.
MaxDocLines == 3
\* The token budget OBSIDIAN_BOOTSTRAP_TOKEN_BUDGET is set to, when it is set.
OverrideTokens == 5
\* The most commands of the CLI run one after the other.
MaxCommands == 2
\* The tick of the clock at which the next day begins, and the last tick.
Midnight == 2
MaxTicks == 3
\* The setConfig call of applyHeartbeat that may throw, counted from 1.
FailingCall == 3
\* The longest daily note of the rebuild pipeline, in lines.
MaxPipeLines == 2

VARIABLES
  note,             \* today's daily note: its lines, and whether it ends with a line feed
  governanceFiles,  \* the governance files of the vault root: file name -> text
  state,            \* the persisted cache file: date -> cache entry
  clock,            \* the time, read by new Date()
  bootstrapFiles,   \* context.bootstrapFiles of the last invocation
  run,              \* what the last invocation read and computed
  edits,            \* how the note changed since the last invocation
  trunc,            \* a call of buildObsidianSafeSnapshot: its input and its result
  io,               \* the cache file on disk and the invocations racing on it
  vaultEnv,         \* a call of resolveVaultRoot: its environment and its result
  doc,              \* a governance document and what the hook makes of it
  cli,              \* the machine the CLI runs on, and its last command
  tree,             \* a call of sync_live_copy.sh: source, destination and result
  pipe,             \* a daily note sent through the rebuild pipeline
  day               \* an invocation around midnight: the daily files and its locals

vars == <<note, governanceFiles, state, clock, bootstrapFiles, run, edits, trunc,
          io, vaultEnv, doc, cli, tree, pipe, day>>

\* getTodayDateString(): the behaviours of the model stay within one day.
today == "2026-02-14"

\* SHA-256, taken to be free of collisions: the digest stands for its input.
computeSha256(text) == <<"sha256", text>>

\* The text the content source returns for the note.
NoteText(n) ==
  Join(n.lines, <<LF>>) \o (IF n.eol /\ n.lines # <<>> THEN <<LF>> ELSE <<>>)

\* normalizedOutput ? normalizedOutput.split('\n').length : 0
LineCountOf(normalizedOutput) ==
  IF normalizedOutput # <<>> THEN Len(Split(normalizedOutput)) ELSE 0

\* A delta that starts one line early.
DeltaTextOneLineEarly(hasDayState, lastLineCount, normalizedOutput) ==
  IF hasDayState /\ LineCountOf(normalizedOutput) > lastLineCount /\ lastLineCount > 0
  THEN Trim(Join(SubSeq(Split(normalizedOutput), lastLineCount,
                        Len(Split(normalizedOutput))), <<LF>>))
  ELSE <<>>

\* A delta that is taken whether or not the note has grown.
DeltaTextUnguarded(hasDayState, lastLineCount, normalizedOutput) ==
  Trim(Join(SubSeq(Split(normalizedOutput), lastLineCount + 1,
                   Len(Split(normalizedOutput))), <<LF>>))

\* The delta of the handler: the lines from index lastLineCount on, trimmed.
DeltaText(hasDayState, lastLineCount, normalizedOutput) ==
  LET lines == Split(normalizedOutput)
  IN  IF hasDayState /\ LineCountOf(normalizedOutput) > lastLineCount
      THEN Trim(Join(SubSeq(lines, lastLineCount + 1, Len(lines)), <<LF>>))
      ELSE <<>>

\* A cache that is never hit.
CacheNeverHit(st, combinedHash) == FALSE

\* A cache that is hit by any entry of the day, whatever its hash.
CacheHitAnyHash(st, combinedHash) ==
  /\ today \in DOMAIN st
  /\ st[today].snapshot # <<>>

\* dayState && dayState.combinedHash === combinedHash && dayState.snapshot
CacheHit(st, combinedHash) ==
  /\ today \in DOMAIN st
  /\ st[today].combinedHash = combinedHash
  /\ st[today].snapshot # <<>>

SnapshotArtifact(safeSnapshot) ==
  Join(<< <<"# Obsidian Context Snapshot">>, <<>>, safeSnapshot, <<>>, <<"---">>,
          <<"*Injected via Obsidian Pre-Prompt Hook (Governance + Daily Note)*">> >>,
       <<LF>>)

EmptyArtifact(governanceContext) ==
  Join(<< <<"# Obsidian Context Snapshot">>, <<>>,
          <<"No log entries found for today yet. Use the obsidian-life-memory skill to log events.">>,
          <<>>,
          IF governanceContext # <<>>
          THEN <<LF, "# Behavioral Governance", LF>> \o governanceContext
          ELSE <<>> >>,
       <<LF>>)

\* The lines a daily note is written from: a plain line, an indented line,
\* and a line that fills the daily budget.
NoteLines ==
  { <<"a">>, <<" ", "b">>, <<"x{7176}">> }

\* The governance the vault may hold: none, or a SOUL.md whose constraints
\* exceed the governance budget.
GovernanceChoices ==
  { <<>>,
    [f \in {"SOUL.md"} |-> <<"#", "#", " ", "Safety", LF, "x{4751}", LF,
                              "-", " ", "NEVER", " ", "a">>] }

NoRun ==
  [ran |-> FALSE, hit |-> FALSE, wrote |-> FALSE, lineCount |-> 0,
   hadEntry |-> FALSE, priorLineCount |-> 0, sharesPrefix |-> FALSE,
   note |-> [lines |-> <<>>, eol |-> FALSE], governanceFiles |-> <<>>,
   priorCombinedHash |-> <<>>, deltaText |-> <<>>, safeSnapshot |-> <<>>,
   baseLines |-> 0, grewBy |-> <<>>]

\* The first n lines of the text read now are the first n lines of the text
\* the previous invocation read.
SharesPrefix(last, normalizedOutput, n) ==
  /\ last.ran
  /\ \E before \in {Split(NormalizeEol(NoteText(last.note)))},
        now \in {Split(normalizedOutput)} :
       /\ n <= Len(before) /\ n <= Len(now)
       /\ SubSeq(before, 1, n) = SubSeq(now, 1, n)

NoEdits == [appended |-> <<>>, deleted |-> FALSE]

NoTrunc == [lines |-> <<>>, maxChars |-> 0, done |-> FALSE, out |-> <<>>]

\* No invocation is racing, no call of resolveVaultRoot and no document is at hand.
NoIo == <<>>

NoVault == <<>>

NoDoc == [lines |-> <<>>, done |-> FALSE, context |-> <<>>, section |-> <<>>,
          unreadable |-> {}]

\* No invocation around midnight is looked at.
NoDay == <<>>

\* No command of the CLI, no sync and no rebuild is under way.
NoCli == <<>>

NoTree == <<>>

NoPipe == [lines |-> <<>>, done |-> FALSE, truncated |-> <<>>, daily |-> <<>>,
           snapshot |-> <<>>, artifact |-> <<>>, delta |-> <<>>,
           governance |-> <<>>]

Init ==
  /\ note \in [lines : {<<>>}, eol : BOOLEAN]
  /\ governanceFiles = <<>>
  /\ state = <<>>
  /\ clock = 0
  /\ bootstrapFiles = <<>>
  /\ run = NoRun
  /\ edits = NoEdits
  /\ trunc = NoTrunc
  /\ io = NoIo
  /\ vaultEnv = NoVault
  /\ doc = NoDoc
  /\ cli = NoCli
  /\ tree = NoTree
  /\ pipe = NoPipe
  /\ day = NoDay

\* The user appends a line to today's note.
AppendLine(l) ==
  /\ clock < MaxRuns
  /\ Len(note.lines) < MaxNoteLines
  /\ note' = [note EXCEPT !.lines = Append(@, l)]
  /\ edits' = [edits EXCEPT !.appended = Append(@, l)]
  /\ UNCHANGED <<governanceFiles, state, clock, bootstrapFiles, run, trunc, io, vaultEnv, doc,
                 cli, tree, pipe, day>>

\* The user deletes the last line of the note, once between two invocations
\* and before writing new lines (a line written and deleted again leaves the
\* note as it was), and may then write another in its place: an edit in
\* place.
RemoveLastLine ==
  /\ clock < MaxRuns
  /\ note.lines # <<>>
  /\ ~edits.deleted
  /\ edits.appended = <<>>
  /\ note' = [note EXCEPT !.lines = SubSeq(@, 1, Len(@) - 1)]
  /\ edits' = [appended |-> <<>>, deleted |-> TRUE]
  /\ UNCHANGED <<governanceFiles, state, clock, bootstrapFiles, run, trunc, io, vaultEnv, doc,
                 cli, tree, pipe, day>>

\* The governance files of the vault change.
ChangeGovernance(g) ==
  /\ clock < MaxRuns
  /\ g # governanceFiles
  /\ governanceFiles' = g
  /\ UNCHANGED <<note, state, clock, bootstrapFiles, run, edits, trunc, io, vaultEnv, doc,
                 cli, tree, pipe, day>>

\* The handler runs for an 'agent:bootstrap' event.  Each value the code
\* computes once is bound once, in the order of the code.
handler ==
  /\ clock < MaxRuns
  /\ \E governanceContext \in {buildGovernanceContext(governanceFiles)},
        normalizedOutput \in {NormalizeEol(NoteText(note))} :
     \E governanceHash \in {computeSha256(governanceContext)},
        dailyHash \in {computeSha256(normalizedOutput)},
        lineCount \in {LineCountOf(normalizedOutput)},
        hasDayState \in {today \in DOMAIN state} :
     \E combinedHash \in {computeSha256(<<dailyHash, governanceHash>>)},
        lastLineCount \in {IF hasDayState THEN state[today].lastLineCount ELSE 0} :
     \E hit \in {CacheHit(state, combinedHash)} :
     \E fullDailySnapshot \in
          {IF hit THEN <<>>
           ELSE buildObsidianSafeSnapshot(normalizedOutput, MAX_SNAPSHOT_CHARS)},
        deltaText \in
          {IF hit THEN <<>>
           ELSE DeltaText(hasDayState, lastLineCount, normalizedOutput)} :
     \E dailyContent \in
          {IF hit THEN <<>>
           ELSE buildTokenAwareSnapshot(deltaText, fullDailySnapshot,
                                        DAILY_TOKEN_BUDGET)} :
     \E safeSnapshot \in
          {IF hit THEN state[today].snapshot
           ELSE buildUnifiedSnapshot(dailyContent, governanceContext,
                                     MAX_SNAPSHOT_TOKENS)} :
       /\ state' =
            IF hit THEN state
            ELSE [d \in DOMAIN state \cup {today} |->
                    IF d = today
                    THEN [noteHash |-> dailyHash,
                          governanceHash |-> governanceHash,
                          combinedHash |-> combinedHash,
                          snapshot |-> safeSnapshot,
                          lastLineCount |-> lineCount,
                          lastUpdatedIso |-> clock]
                    ELSE state[d]]
       /\ bootstrapFiles' =
            [f \in {"OBSIDIAN_DAILY.md"} |->
               IF safeSnapshot # <<>> THEN SnapshotArtifact(safeSnapshot)
               ELSE EmptyArtifact(governanceContext)]
       /\ run' = [ran |-> TRUE, hit |-> hit, wrote |-> ~hit,
                  lineCount |-> lineCount, hadEntry |-> hasDayState,
                  priorLineCount |-> lastLineCount,
                  priorCombinedHash |-> IF hasDayState THEN state[today].combinedHash
                                        ELSE <<>>,
                  sharesPrefix |-> SharesPrefix(run, normalizedOutput, lastLineCount),
                  note |-> note, governanceFiles |-> governanceFiles,
                  deltaText |-> deltaText,
                  safeSnapshot |-> safeSnapshot,
                  baseLines |-> Len(run.note.lines),
                  grewBy |-> IF run.ran /\ ~edits.deleted THEN edits.appended
                             ELSE <<>>]
  /\ clock' = clock + 1
  /\ edits' = NoEdits
  /\ UNCHANGED <<note, governanceFiles, trunc, io, vaultEnv, doc, cli, tree, pipe, day>>

Next ==
  \/ \E l \in NoteLines : AppendLine(l)
  \/ RemoveLastLine
  \/ \E g \in GovernanceChoices : ChangeGovernance(g)
  \/ handler

Spec == Init /\ [][Next]_vars

(***************************************************************************)
(* The truncator on its own: buildObsidianSafeSnapshot applied to a text   *)
(* typed line by line, under a character budget.                           *)
(***************************************************************************)

\* The lines the inputs of the truncator are typed from: a heading, a task
\* with a wikilink, a tagged line that ends with a carriage return, an indented
\* line, a blank line, a comment, two runs, a long line with a wikilink and a
\* long task.
TruncLines ==
  { <<"#", " ", "H">>,
    <<"-", " ", "[", " ", "]", " ", "t", " ", "[", "[", "b", "]", "]">>,
    <<"c", " ", "#", "t", CR>>,
    <<" ", "d">>,
    <<>>,
    <<"%", "%", "e", "%", "%">>,
    <<"x{30}">>,
    <<"x{7176}">>,
    <<"x{5000}", " ", "[", "[", "b", "]", "]">>,
    <<"-", " ", "[", " ", "]", " ", "x{3978}">> }

\* The character budgets of the calls: two small ones and the handler's.
TruncBudgets == {20, 40, MAX_SNAPSHOT_CHARS}

\* The raw text of the call.
TruncRaw == Join(trunc.lines, <<LF>>)

\* The text the truncator works on.
TruncText == Trim(NormalizeEol(TruncRaw))

TypeLine(l) ==
  /\ ~trunc.done
  /\ Len(trunc.lines) < MaxTruncLines
  /\ trunc' = [trunc EXCEPT !.lines = Append(@, l)]
  /\ UNCHANGED <<note, governanceFiles, state, clock, bootstrapFiles, run, edits,
                 io, vaultEnv, doc, cli, tree, pipe, day>>

Truncate(maxChars) ==
  /\ ~trunc.done
  /\ trunc' = [trunc EXCEPT !.maxChars = maxChars, !.done = TRUE,
                            !.out = buildObsidianSafeSnapshot(TruncRaw, maxChars)]
  /\ UNCHANGED <<note, governanceFiles, state, clock, bootstrapFiles, run, edits,
                 io, vaultEnv, doc, cli, tree, pipe, day>>

NextTrunc ==
  \/ \E l \in TruncLines : TypeLine(l)
  \/ \E m \in TruncBudgets : Truncate(m)

\* The handler's variables play no part in the calls of the truncator.
InitTrunc == Init /\ ~note.eol

SpecTrunc == InitTrunc /\ [][NextTrunc]_vars

(***************************************************************************)
(* resolveVaultRoot: where the hook looks for the vault.  An environment   *)
(* variable is <<>> when unset and <<v>> when set to the string v.         *)
(***************************************************************************)

\* What JavaScript takes for true: a value that is there and is not ''.
Truthy(v) == v # <<>> /\ v[1] # ""

\* process.cwd().
Cwd == "/cwd"

\* process.env.HOME || process.env.USERPROFILE || '/root'.
Homedir(env) ==
  IF Truthy(env.HOME) THEN env.HOME[1]
  ELSE IF Truthy(env.USERPROFILE) THEN env.USERPROFILE[1]
  ELSE "/root"

\* The states of vault_config.json: no file, a file that cannot be read, text
\* that is no JSON, the JSON null, and JSON objects with or without vault_path.
ConfigFiles ==
  { [kind |-> "missing", vault_path |-> <<>>],
    [kind |-> "unreadable", vault_path |-> <<>>],
    [kind |-> "invalid", vault_path |-> <<>>],
    [kind |-> "null", vault_path |-> <<>>],
    [kind |-> "object", vault_path |-> <<>>],
    [kind |-> "object", vault_path |-> <<"">>],
    [kind |-> "object", vault_path |-> <<"/cfg">>] }

\* The file at configPath: the one config file of the model when it lies under
\* the home directory the hook works out, and no file otherwise.
ConfigAt(env, homedir) ==
  IF env.configHome = homedir THEN env.config
  ELSE [kind |-> "missing", vault_path |-> <<>>]

\* The body of the try block: what it returns, or that it threw.  readFileSync
\* throws on an unreadable file, JSON.parse on text that is no JSON, and
\* config.vault_path on null.
TryConfig(file) ==
  IF file.kind = "missing" THEN [threw |-> FALSE, returned |-> <<>>]
  ELSE IF file.kind \in {"unreadable", "invalid", "null"}
    THEN [threw |-> TRUE, returned |-> <<>>]
  ELSE IF Truthy(file.vault_path) THEN [threw |-> FALSE, returned |-> file.vault_path]
  ELSE [threw |-> FALSE, returned |-> <<>>]

\* The resolution without the try block around the config file.
resolveUnguarded(env) ==
  IF Truthy(env.OBSIDIAN_VAULT_PATH)
    THEN [threw |-> FALSE, path |-> env.OBSIDIAN_VAULT_PATH[1]]
  ELSE IF TryConfig(ConfigAt(env, Homedir(env))).threw
    THEN [threw |-> TRUE, path |-> ""]
  ELSE IF TryConfig(ConfigAt(env, Homedir(env))).returned # <<>>
    THEN [threw |-> FALSE, path |-> TryConfig(ConfigAt(env, Homedir(env))).returned[1]]
  ELSE [threw |-> FALSE, path |-> Cwd]

\* resolveVaultRoot(): the environment variable, then the config file, then the
\* working directory; whatever the try block throws is swallowed.
resolveVaultRoot(env) ==
  IF Truthy(env.OBSIDIAN_VAULT_PATH)
    THEN [threw |-> FALSE, path |-> env.OBSIDIAN_VAULT_PATH[1]]
  ELSE IF TryConfig(ConfigAt(env, Homedir(env))).returned # <<>>
    THEN [threw |-> FALSE, path |-> TryConfig(ConfigAt(env, Homedir(env))).returned[1]]
  ELSE [threw |-> FALSE, path |-> Cwd]

\* The environments of a call.
VaultEnvs ==
  [ OBSIDIAN_VAULT_PATH : {<<>>, <<"">>, <<"/env">>},
    HOME : {<<>>, <<"/home/u">>},
    USERPROFILE : {<<>>, <<"/profile">>},
    configHome : {"/home/u", "/profile", "/root"},
    config : ConfigFiles ]

InitVault ==
  /\ note = [lines |-> <<>>, eol |-> FALSE]
  /\ governanceFiles = <<>>
  /\ state = <<>>
  /\ clock = 0
  /\ bootstrapFiles = <<>>
  /\ run = NoRun
  /\ edits = NoEdits
  /\ trunc = NoTrunc
  /\ io = NoIo
  /\ doc = NoDoc
  /\ cli = NoCli
  /\ tree = NoTree
  /\ pipe = NoPipe
  /\ day = NoDay
  /\ vaultEnv \in [env : VaultEnvs, done : {FALSE}, result : {[threw |-> FALSE, path |-> ""]}]

ResolveVault ==
  /\ ~vaultEnv.done
  /\ vaultEnv' = [vaultEnv EXCEPT !.done = TRUE, !.result = resolveVaultRoot(vaultEnv.env)]
  /\ UNCHANGED <<note, governanceFiles, state, clock, bootstrapFiles, run, edits, trunc,
                 io, doc, cli, tree, pipe, day>>

NextVault == ResolveVault

SpecVault == InitVault /\ [][NextVault]_vars

(***************************************************************************)
(* The governance path alone: one governance file, SOUL.md, goes through   *)
(* buildGovernanceContext and the governance block of buildUnifiedSnapshot.*)
(***************************************************************************)

\* The lines a governance document is typed from: a heading that matches a
\* critical keyword, a higher and a lower one that do not, bullets with a strong keyword (one
\* indented, one very long), a line with a strong keyword that is no bullet,
\* and plain lines, one of them long.
DocLines ==
  { <<"#", "#", " ", "Safety">>,
    <<"#", " ", "h">>,
    <<"#", "#", "#", " ", "s">>,
    <<"-", " ", "NEVER", " ", "a">>,
    <<" ", "*", " ", "ALWAYS", " ", "b">>,
    <<"-", " ", "NEVER", " ", "x{4751}">>,
    <<"NEVER", " ", "c">>,
    <<"a">>,
    <<"x{4751}">> }

\* The document as SOUL.md holds it.
DocText == Join(doc.lines, <<LF>>)

TypeDocLine(l) ==
  /\ ~doc.done
  /\ Len(doc.lines) < MaxDocLines
  /\ doc' = [doc EXCEPT !.lines = Append(@, l)]
  /\ UNCHANGED <<note, governanceFiles, state, clock, bootstrapFiles, run, edits, trunc,
                 io, vaultEnv, cli, tree, pipe, day>>

\* The governance part of an invocation: the context built from SOUL.md, and
\* the block buildUnifiedSnapshot makes of it.
Govern ==
  /\ ~doc.done
  /\ \E governanceContext \in
          { buildGovernanceContext([f \in {"SOUL.md"} |-> DocText]) } :
       \E trimmedGov \in { TrimmedGov(governanceContext) } :
         doc' = [doc EXCEPT !.done = TRUE,
                            !.context = governanceContext,
                            !.section = IF trimmedGov # <<>>
                                        THEN GovHeader \o trimmedGov ELSE <<>>]
  /\ UNCHANGED <<note, governanceFiles, state, clock, bootstrapFiles, run, edits, trunc,
                 io, vaultEnv, cli, tree, pipe, day>>

NextGov ==
  \/ \E l \in DocLines : TypeDocLine(l)
  \/ Govern

InitGov ==
  /\ note = [lines |-> <<>>, eol |-> FALSE]
  /\ governanceFiles = <<>>
  /\ state = <<>>
  /\ clock = 0
  /\ bootstrapFiles = <<>>
  /\ run = NoRun
  /\ edits = NoEdits
  /\ trunc = NoTrunc
  /\ io = NoIo
  /\ vaultEnv = NoVault
  /\ doc = NoDoc
  /\ cli = NoCli
  /\ tree = NoTree
  /\ pipe = NoPipe
  /\ day = NoDay

SpecGov == InitGov /\ [][NextGov]_vars

(***************************************************************************)
(* The handler as the operating system sees it: invocations in separate    *)
(* processes, each a sequence of reads and one write of the cache file,    *)
(* in an environment where the CLI, the files and the disk may fail.       *)
(***************************************************************************)

\* The processes that run the hook, each for one invocation.
Procs == {1, 2}

\* The cache file on disk.  Its text is no JSON ("invalid"), a JSON value that
\* is no object ("scalar": null, a number, a string), a JSON array, a JSON
\* object (its mapping is given), or the cut-off text of a write that has not
\* finished ("partial").
MissingFile == [kind |-> "missing", mapping |-> <<>>]

PartialFile == [kind |-> "partial", mapping |-> <<>>]

\* An entry of another day and a key the hook knows nothing about.
SeededMapping ==
  [d \in {"2026-02-13", "schema"} |->
     IF d = "schema" THEN [version |-> "v1"]
     ELSE [noteHash |-> computeSha256(<<"y">>),
           governanceHash |-> computeSha256(<<>>),
           combinedHash |-> computeSha256(<<computeSha256(<<"y">>), computeSha256(<<>>)>>),
           snapshot |-> DailyHeader \o <<"y">>,
           lastLineCount |-> 1,
           lastUpdatedIso |-> 0]]

\* The cache files an invocation may find.
CacheFiles ==
  { MissingFile,
    [kind |-> "invalid", mapping |-> <<>>],
    [kind |-> "scalar", mapping |-> <<>>],
    [kind |-> "array", mapping |-> <<>>],
    [kind |-> "object", mapping |-> <<>>],
    [kind |-> "object", mapping |-> SeededMapping] }

\* readBootstrapState(): {} for a missing file, for text JSON.parse throws on
\* and for a parsed value that is falsy or no 'object'; an array is an 'object'
\* to typeof and is returned as it is.
readBootstrapState(file) ==
  IF file.kind = "object" THEN [isArray |-> FALSE, mapping |-> file.mapping]
  ELSE IF file.kind = "array" THEN [isArray |-> TRUE, mapping |-> <<>>]
  ELSE [isArray |-> FALSE, mapping |-> <<>>]

\* A lookup that falls back to the entry of the day before.
dayStateOrLatest(mapping) ==
  IF today \in DOMAIN mapping THEN [d \in {today} |-> mapping[d]]
  ELSE IF "2026-02-13" \in DOMAIN mapping
       THEN [d \in {today} |-> mapping["2026-02-13"]]
       ELSE <<>>

\* const dayState = state[today] || null: of the loaded mapping the handler
\* looks at the entry of today only (the mapping with at most that key).
dayState(mapping) ==
  [d \in DOMAIN mapping \cap {today} |-> mapping[d]]

\* An assignment that forgets the other keys of the mapping.
OnlyEntry(st, date, entry) ==
  [isArray |-> st.isArray, mapping |-> [d \in {date} |-> entry]]

\* state[today] = {...}: the entry becomes a property of the loaded value.
WithEntry(st, date, entry) ==
  [isArray |-> st.isArray,
   mapping |-> [d \in DOMAIN st.mapping \cup {date} |->
                  IF d = date THEN entry ELSE st.mapping[d]]]

\* The file JSON.stringify(state, null, 2) + '\n' makes: of an array only the
\* elements are written, its named properties are not.
Stringify(st) ==
  IF st.isArray THEN [kind |-> "array", mapping |-> <<>>]
  ELSE [kind |-> "object", mapping |-> st.mapping]

\* A save that is given up when the file is no longer the one that was loaded.
SaveIfUnchanged(loadedFile, currentFile) == loadedFile = currentFile

\* writeBootstrapState(state) is called whatever the file holds by now.
SaveApplies(loadedFile, currentFile) == TRUE

\* readDailyViaCli(): the text of today's note, or an exception when the
\* command fails or runs into its timeout.
readDailyViaCli(env, text) ==
  IF env.cli THEN [threw |-> FALSE, text |-> text, read |-> {}]
  ELSE [threw |-> TRUE, text |-> <<>>, read |-> {}]

possiblePaths == <<"Daily", "memory", "root">>

\* What the file at one of the paths holds: Daily/<date>.md is the note the
\* CLI prints; a file of that name in memory/ or at the root of the vault is
\* another file, here the note under a line that names the place.
FileAt(path, text) ==
  IF path = "Daily" THEN text ELSE <<path, LF>> \o text

\* A loop that goes through the paths from the last to the first.
lastExistingPath(env) ==
  possiblePaths[CHOOSE i \in 1..Len(possiblePaths) :
                  /\ possiblePaths[i] \in env.paths
                  /\ \A j \in (i + 1)..Len(possiblePaths) :
                       possiblePaths[j] \notin env.paths]

\* for (const dailyPath of possiblePaths) if (fs.existsSync(dailyPath)):
\* the first of the paths that exists.
firstExistingPath(env) ==
  possiblePaths[CHOOSE i \in 1..Len(possiblePaths) :
                  /\ possiblePaths[i] \in env.paths
                  /\ \A j \in 1..(i - 1) : possiblePaths[j] \notin env.paths]

\* A fallback that takes a missing note for an error.
FallbackThrowsWhenMissing(env, text) ==
  IF \E i \in 1..Len(possiblePaths) : possiblePaths[i] \in env.paths
  THEN IF env.readable
       THEN [threw |-> FALSE, text |-> FileAt(firstExistingPath(env), text),
             read |-> {firstExistingPath(env)}]
       ELSE [threw |-> TRUE, text |-> <<>>, read |-> {firstExistingPath(env)}]
  ELSE [threw |-> TRUE, text |-> <<>>, read |-> {}]

\* readDailyViaFileFallback(): the first of the three paths that exists is
\* read, and readFileSync may throw; '' when none exists.
readDailyViaFileFallback(env, text) ==
  IF \E i \in 1..Len(possiblePaths) : possiblePaths[i] \in env.paths
  THEN IF env.readable
       THEN [threw |-> FALSE, text |-> FileAt(firstExistingPath(env), text),
             read |-> {firstExistingPath(env)}]
       ELSE [threw |-> TRUE, text |-> <<>>, read |-> {firstExistingPath(env)}]
  ELSE [threw |-> FALSE, text |-> <<>>, read |-> {}]

\* Lines 962-966: the CLI, and the fallback when the CLI throws.
AcquireDaily(env, text) ==
  IF readDailyViaCli(env, text).threw THEN readDailyViaFileFallback(env, text)
  ELSE readDailyViaCli(env, text)

\* readGovernanceFiles(): a file that cannot be read is skipped.
readGovernanceFiles(files, unreadable) ==
  [f \in DOMAIN files \ unreadable |-> files[f]]

ErrorArtifact(message) ==
  Join(<< <<"# Obsidian Memory Error">>, <<>>,
          <<"The pre-prompt hook failed to load context: ", message>>, <<>>,
          <<"Please check the Obsidian service status.">> >>,
       <<LF>>)

\* A catch block that lets the error go on to the caller.
OnErrorRethrow(files, message) ==
  [exit |-> "threw", files |-> files]

\* A catch block that also puts an empty daily artifact.
OnErrorWithDaily(files, message) ==
  [exit |-> "returned",
   files |-> [f \in DOMAIN files \cup {"OBSIDIAN_ERROR.md", "OBSIDIAN_DAILY.md"} |->
                IF f = "OBSIDIAN_ERROR.md" THEN ErrorArtifact(message)
                ELSE IF f = "OBSIDIAN_DAILY.md" THEN EmptyArtifact(<<>>)
                ELSE files[f]]]

\* The catch block of the handler: the error artifact joins what the
\* invocation has put into context.bootstrapFiles, and the handler returns.
OnError(files, message) ==
  [exit |-> "returned",
   files |-> [f \in DOMAIN files \cup {"OBSIDIAN_ERROR.md"} |->
                IF f = "OBSIDIAN_ERROR.md" THEN ErrorArtifact(message)
                ELSE files[f]]]

\* The OBSIDIAN_DAILY.md the try block ends with.
DailyArtifact(safeSnapshot, governanceContext) ==
  [f \in {"OBSIDIAN_DAILY.md"} |->
     IF safeSnapshot # <<>> THEN SnapshotArtifact(safeSnapshot)
     ELSE EmptyArtifact(governanceContext)]

\* The environments of the model: everything works; the CLI fails and the note
\* is found by the fallback, at the second path, at the first and third, or at
\* the second and third; the CLI fails and there is no note at any of the paths; the note is there and
\* cannot be read; the cache file cannot be written; SOUL.md cannot be read;
\* and OBSIDIAN_BOOTSTRAP_TOKEN_BUDGET is set.
Benign ==
  [cli |-> TRUE, paths |-> {"Daily"}, readable |-> TRUE, writable |-> TRUE,
   govUnreadable |-> {}, OBSIDIAN_BOOTSTRAP_TOKEN_BUDGET |-> <<>>]

Environments ==
  { Benign,
    [Benign EXCEPT !.cli = FALSE, !.paths = {"memory"}],
    [Benign EXCEPT !.cli = FALSE, !.paths = {"Daily", "root"}],
    [Benign EXCEPT !.cli = FALSE, !.paths = {"memory", "root"}],
    [Benign EXCEPT !.cli = FALSE, !.paths = {}],
    [Benign EXCEPT !.cli = FALSE, !.readable = FALSE],
    [Benign EXCEPT !.writable = FALSE],
    [Benign EXCEPT !.cli = FALSE, !.paths = {}, !.writable = FALSE],
    [Benign EXCEPT !.govUnreadable = {"SOUL.md"}],
    [Benign EXCEPT !.OBSIDIAN_BOOTSTRAP_TOKEN_BUDGET = <<OverrideTokens>>] }

\* The governance files of the vault in these behaviours.
GovernanceFilesIO ==
  { <<>>, [f \in {"SOUL.md"} |-> <<"-", " ", "NEVER", " ", "a">>] }

\* What an invocation holds in its locals.
NoLocal ==
  [loaded |-> [isArray |-> FALSE, mapping |-> <<>>],
   loadedFile |-> MissingFile,
   text |-> <<>>,
   read |-> {},
   cliFailed |-> FALSE,
   acquireThrew |-> FALSE,
   governanceContext |-> <<>>,
   hit |-> FALSE,
   wrote |-> FALSE,
   writeThrew |-> FALSE,
   combinedHash |-> <<>>,
   entry |-> <<>>,
   snapshot |-> <<>>,
   pending |-> MissingFile,
   persisted |-> MissingFile]

InitIO ==
  /\ note = [lines |-> <<>>, eol |-> FALSE]
  /\ governanceFiles \in GovernanceFilesIO
  /\ state = <<>>
  /\ clock = 0
  /\ bootstrapFiles = <<>>
  /\ run = NoRun
  /\ edits = NoEdits
  /\ trunc = NoTrunc
  /\ vaultEnv = NoVault
  /\ doc = NoDoc
  /\ cli = NoCli
  /\ tree = NoTree
  /\ pipe = NoPipe
  /\ day = NoDay
  /\ io \in [env : Environments,
             file : CacheFiles,
             pc : {[p \in Procs |-> "idle"]},
             local : {[p \in Procs |-> NoLocal]},
             files : {[p \in Procs |-> <<>>]},
             exit : {[p \in Procs |-> "running"]},
             order : {<<>>}]

\* The user logs a line into today's note.
LogEntry ==
  /\ Len(note.lines) < MaxNoteLines
  /\ note' = [note EXCEPT !.lines = Append(@, <<"a">>)]
  /\ UNCHANGED <<governanceFiles, state, clock, bootstrapFiles, run, edits, trunc,
                 io, vaultEnv, doc, cli, tree, pipe, day>>

\* Lines 953-969 of an invocation: the cache file, the daily note and the
\* governance files are read.  An exception of the fallback read ends the
\* invocation in the catch block.
handlerRead(p) ==
  /\ io.pc[p] = "idle"
  /\ \E daily \in {AcquireDaily(io.env, NoteText(note))},
        governanceContext \in
          {buildGovernanceContext(
             readGovernanceFiles(governanceFiles, io.env.govUnreadable))} :
     \E caught \in {OnError(<<>>, "read")} :
       io' = [io EXCEPT
                !.local[p] = [@ EXCEPT !.loaded = readBootstrapState(io.file),
                                       !.loadedFile = io.file,
                                       !.text = daily.text,
                                       !.read = daily.read,
                                       !.cliFailed = ~io.env.cli,
                                       !.acquireThrew = daily.threw,
                                       !.governanceContext = governanceContext],
                !.pc[p] = IF daily.threw THEN "done" ELSE "read",
                !.files[p] = IF daily.threw THEN caught.files ELSE @,
                !.exit[p] = IF daily.threw THEN caught.exit ELSE @]
  /\ UNCHANGED <<note, governanceFiles, state, clock, bootstrapFiles, run, edits, trunc,
                 vaultEnv, doc, cli, tree, pipe, day>>

\* Lines 971-1022: the hashes, the cache test and, on a miss, the rebuild and
\* the call of writeBootstrapState, which opens the file for writing and so
\* cuts it to nothing, or throws when the file cannot be opened.  On a hit the
\* invocation ends with the cached snapshot.
handlerSave(p) ==
  /\ io.pc[p] = "read"
  /\ \E st \in {io.local[p].loaded},
        governanceContext \in {io.local[p].governanceContext},
        normalizedOutput \in {NormalizeEol(io.local[p].text)} :
     \E governanceHash \in {computeSha256(governanceContext)},
        dailyHash \in {computeSha256(normalizedOutput)},
        lineCount \in {LineCountOf(normalizedOutput)},
        hasDayState \in {today \in DOMAIN dayState(st.mapping)} :
     \E combinedHash \in {computeSha256(<<dailyHash, governanceHash>>)},
        lastLineCount \in {IF hasDayState
                           THEN dayState(st.mapping)[today].lastLineCount ELSE 0} :
     \E hit \in {CacheHit(dayState(st.mapping), combinedHash)} :
     \E fullDailySnapshot \in
          {IF hit THEN <<>>
           ELSE buildObsidianSafeSnapshot(normalizedOutput, MAX_SNAPSHOT_CHARS)},
        deltaText \in
          {IF hit THEN <<>>
           ELSE DeltaText(hasDayState, lastLineCount, normalizedOutput)} :
     \E dailyContent \in
          {IF hit THEN <<>>
           ELSE buildTokenAwareSnapshot(deltaText, fullDailySnapshot,
                                        DAILY_TOKEN_BUDGET)} :
     \E safeSnapshot \in
          {IF hit THEN dayState(st.mapping)[today].snapshot
           ELSE buildUnifiedSnapshot(dailyContent, governanceContext,
                                     MAX_SNAPSHOT_TOKENS)} :
     \E entry \in {[noteHash |-> dailyHash,
                    governanceHash |-> governanceHash,
                    combinedHash |-> combinedHash,
                    snapshot |-> safeSnapshot,
                    lastLineCount |-> lineCount,
                    lastUpdatedIso |-> clock]},
        caught \in {OnError(<<>>, "write")},
        saves \in {SaveApplies(io.local[p].loadedFile, io.file)} :
       io' = [io EXCEPT
                !.local[p] = [@ EXCEPT !.hit = hit,
                                       !.combinedHash = combinedHash,
                                       !.snapshot = safeSnapshot,
                                       !.entry = IF hit THEN <<>> ELSE <<entry>>,
                                       !.writeThrew = ~hit /\ saves /\ ~io.env.writable,
                                       !.pending = Stringify(WithEntry(st, today, entry))],
                !.file = IF ~hit /\ saves /\ io.env.writable THEN PartialFile ELSE @,
                !.pc[p] = IF hit \/ ~io.env.writable THEN "done"
                          ELSE IF saves THEN "writing" ELSE "written",
                !.files[p] = IF hit THEN DailyArtifact(safeSnapshot, governanceContext)
                             ELSE IF saves /\ ~io.env.writable THEN caught.files
                             ELSE @,
                !.exit[p] = IF hit THEN "returned"
                            ELSE IF saves /\ ~io.env.writable THEN caught.exit
                            ELSE @]
  /\ UNCHANGED <<note, governanceFiles, state, clock, bootstrapFiles, run, edits, trunc,
                 vaultEnv, doc, cli, tree, pipe, day>>

\* Lines 1022-1042: the write of the cache file comes to its end, and the
\* invocation puts OBSIDIAN_DAILY.md and returns.
handlerEmit(p) ==
  /\ io.pc[p] \in {"writing", "written"}
  /\ io' = [io EXCEPT
              !.file = IF io.pc[p] = "writing" THEN io.local[p].pending ELSE @,
              !.local[p] = [@ EXCEPT !.wrote = TRUE,
                                     !.persisted = IF io.pc[p] = "writing"
                                                   THEN io.local[p].pending ELSE io.file],
              !.order = Append(@, p),
              !.pc[p] = "done",
              !.files[p] = DailyArtifact(io.local[p].snapshot,
                                         io.local[p].governanceContext),
              !.exit[p] = "returned"]
  /\ UNCHANGED <<note, governanceFiles, state, clock, bootstrapFiles, run, edits, trunc,
                 vaultEnv, doc, cli, tree, pipe, day>>

\* The process is killed, or the machine goes down, while writeFileSync is
\* between opening the file and the end of its writes.
Interrupt(p) ==
  /\ io.pc[p] = "writing"
  /\ io' = [io EXCEPT !.pc[p] = "killed", !.exit[p] = "killed"]
  /\ UNCHANGED <<note, governanceFiles, state, clock, bootstrapFiles, run, edits, trunc,
                 vaultEnv, doc, cli, tree, pipe, day>>

NextIO ==
  \/ LogEntry
  \/ \E p \in Procs : handlerRead(p)
  \/ \E p \in Procs : handlerSave(p)
  \/ \E p \in Procs : handlerEmit(p)
  \/ \E p \in Procs : Interrupt(p)

SpecIO == InitIO /\ [][NextIO]_vars

(***************************************************************************)
(* The CLI bin/obsidian-life-memory.js: the OpenClaw configuration it      *)
(* reads and sets through 'openclaw config', the files it creates, and the *)
(* dispatcher.  A config value is a text, as the notes are.                *)
(***************************************************************************)

\* The keys cmdInit snapshots and applyHeartbeat sets.
EnvKey == "hooks.internal.entries.obsidian-preprompt.env.OBSIDIAN_OPTIONAL_CONTEXT_FILES"

Keys ==
  { EnvKey,
    "agents.defaults.heartbeat.every",
    "agents.defaults.heartbeat.activeHours.timezone",
    "agents.defaults.heartbeat.model",
    "agents.defaults.heartbeat.target",
    "agents.defaults.heartbeat.prompt" }

Unset == [set |-> FALSE, text |-> <<>>]

Value(text) == [set |-> TRUE, text |-> text]

\* The arguments that start with '--'.
DashDash ==
  {"--yes", "--dry-run", "--enable-heartbeat", "--timezone", "--every", "--help"}

\* parseArgs: the command ('help' when there is none), the flags, and the
\* values of the flags that are followed by something that is no flag.
ParsedCmd(argv) == IF argv = <<>> THEN "help" ELSE argv[1]

ParsedFlags(argv) == { argv[i] : i \in { k \in 2..Len(argv) : argv[k] \in DashDash } }

RECURSIVE ParsedValues(_, _)
ParsedValues(rest, i) ==
  IF i > Len(rest) THEN <<>>
  ELSE IF rest[i] \in DashDash /\ i + 1 <= Len(rest) /\ rest[i + 1] \notin DashDash
    THEN << <<rest[i], rest[i + 1]>> >> \o ParsedValues(rest, i + 2)
  ELSE ParsedValues(rest, i + 1)

\* values[flag] || fallback
ValueOr(argv, flag, fallback) ==
  LET pairs == ParsedValues(Tail(argv), 1)
      hits == { k \in 1..Len(pairs) : pairs[k][1] = flag }
  IN  IF hits = {} THEN fallback
      ELSE pairs[CHOOSE k \in hits : \A j \in hits : j <= k][2]

\* getConfig through runSafe: the trimmed output of 'openclaw config get', and
\* whether the command succeeded; it fails for a key that is not set.
getConfig(config, key) ==
  IF config[key].set THEN [ok |-> TRUE, out |-> Trim(config[key].text)]
  ELSE [ok |-> FALSE, out |-> <<>>]

\* snapshotConfig(keys): r.ok ? r.out : null for every key.
snapshotConfig(config) ==
  [k \in Keys |-> IF getConfig(config, k).ok
                  THEN [null |-> FALSE, value |-> getConfig(config, k).out]
                  ELSE [null |-> TRUE, value |-> <<>>]]

\* A restore that sets the saved values and leaves the other keys as they are.
restoreOnlySet(snapshotKeys, config) ==
  [k \in Keys |-> IF snapshotKeys[k].null \/ snapshotKeys[k].value = <<>>
                  THEN config[k] ELSE Value(snapshotKeys[k].value)]

\* restoreConfig(snapshot): a key saved as null or '' is unset, every other
\* key is set to its saved value.
restoreConfig(snapshotKeys, config) ==
  [k \in Keys |-> IF snapshotKeys[k].null \/ snapshotKeys[k].value = <<>>
                  THEN Unset ELSE Value(snapshotKeys[k].value)]

\* applyHeartbeat({timezone, every}): the six keys are set.
applyHeartbeat(config, timezone, every) ==
  [k \in Keys |->
     CASE k = EnvKey -> Value(<<"Context/retrieval_policy.md,Context/now.md">>)
       [] k = "agents.defaults.heartbeat.every" -> Value(<<every>>)
       [] k = "agents.defaults.heartbeat.activeHours.timezone" -> Value(<<timezone>>)
       [] k = "agents.defaults.heartbeat.model" -> Value(<<"google-antigravity/gemini-3-flash">>)
       [] k = "agents.defaults.heartbeat.target" -> Value(<<"none">>)
       [] k = "agents.defaults.heartbeat.prompt" -> Value(<<"Read HEARTBEAT.md strictly and follow it. ...">>)]

\* The order of the six setConfig calls of applyHeartbeat.
HeartbeatOrder ==
  << EnvKey,
     "agents.defaults.heartbeat.every",
     "agents.defaults.heartbeat.activeHours.timezone",
     "agents.defaults.heartbeat.model",
     "agents.defaults.heartbeat.target",
     "agents.defaults.heartbeat.prompt" >>

\* applyHeartbeat when its k-th setConfig throws ('openclaw config set' ends
\* with a status other than 0): the calls before it have been made.
applyHeartbeatUntil(config, timezone, every, k) ==
  [key \in Keys |->
     IF \E i \in 1..(k - 1) : HeartbeatOrder[i] = key
     THEN applyHeartbeat(config, timezone, every)[key]
     ELSE config[key]]

\* Where an init that applies its changes may fail: nowhere, in the sync
\* script, or in a setConfig of applyHeartbeat.
Failures ==
  { [at |-> "none", k |-> 0], [at |-> "sync", k |-> 0],
    [at |-> "set", k |-> FailingCall] }

\* A question that takes every answer but 'no' for consent.
SaysNotNo(answer) == answer \notin {"no", "NO"}

\* answer.trim().toLowerCase() is 'y' or 'yes'.
SaysYes(answer) == answer \in {"y", "yes", "Y", "YES"}

\* A choice that takes the flag for consent also when the question was asked.
HeartbeatByFlagOrAnswer(yes, flag, answer) == flag \/ (~yes /\ SaysYes(answer))

\* enableHeartbeat of cmdInit: the flag with --yes, the answer without.
HeartbeatChoice(yes, flag, answer) ==
  IF yes THEN flag ELSE SaysYes(answer)

\* The configurations the CLI may find: nothing set, a heartbeat somebody set
\* up by hand, one key set to the empty text, and one to a text in blanks.
NothingSet == [k \in Keys |-> Unset]

PriorConfigs ==
  { NothingSet,
    [NothingSet EXCEPT !["agents.defaults.heartbeat.every"] = Value(<<"1h">>),
                       !["agents.defaults.heartbeat.target"] = Value(<<"last">>)],
    [NothingSet EXCEPT !["agents.defaults.heartbeat.model"] = Value(<<>>)],
    [NothingSet EXCEPT !["agents.defaults.heartbeat.prompt"] = Value(<<" ", "p", " ">>)] }

\* The files of the workspace the CLI creates: the Context directory, the two
\* templates, the live skill copy, the hook, and the install snapshot.
FreshDisk ==
  [contextDir |-> FALSE, now |-> FALSE, policy |-> FALSE, skill |-> FALSE,
   hook |-> FALSE, install |-> <<>>]

PriorDisks ==
  { FreshDisk,
    [FreshDisk EXCEPT !.contextDir = TRUE, !.now = TRUE] }

\* The command lines of the model.
Argvs ==
  { <<>>, <<"help">>, <<"--help">>, <<"-h">>, <<"bogus">>,
    <<"init">>,
    <<"init", "--enable-heartbeat">>,
    <<"init", "--yes">>,
    <<"init", "--yes", "--enable-heartbeat">>,
    <<"init", "--yes", "--enable-heartbeat", "--timezone", "Europe/Athens">>,
    <<"init", "--dry-run">>,
    <<"init", "--yes", "--dry-run">>,
    <<"init", "--yes", "--dry-run", "--enable-heartbeat">>,
    <<"sync">>, <<"doctor">>,
    <<"rollback">>, <<"rollback", "--dry-run">> }

\* What the user types at the questions of a command: at 'Enable Heartbeat
\* Gardening setup?', at 'Timezone', and at 'Apply these changes?' or 'Restore
\* saved OpenClaw config values now?'.
Answers ==
  [hb : {"y", "YES", "n"}, tz : {"", "Asia/Tokyo"}, ok : {"y", "n"}]

NoAnswers == [hb |-> "n", tz |-> "", ok |-> "n"]

\* The answers with those to the questions that are not asked left out.
Asked(answers, askHb, askTz, askOk) ==
  [hb |-> IF askHb THEN answers.hb ELSE NoAnswers.hb,
   tz |-> IF askTz THEN answers.tz ELSE NoAnswers.tz,
   ok |-> IF askOk THEN answers.ok ELSE NoAnswers.ok]

\* What a command comes to: it returned, or it threw the given message.
Returned(out) == [threw |-> FALSE, message |-> "", out |-> out]

Threw(out, message) == [threw |-> TRUE, message |-> message, out |-> out]

\* A runtime in which a rejection nobody handles is only warned about: the
\* message is printed and the exit code stays what it was.
DispatchWarning(isAsync, result, exitCode) ==
  [threw |-> result.threw, message |-> result.message,
   exit |-> IF result.threw /\ ~isAsync THEN 1 ELSE exitCode,
   out |-> IF result.threw
           THEN IF isAsync
                THEN result.out \o << <<"Uncaught Error: ", result.message>> >>
                ELSE result.out \o << <<"error: ", result.message>> >>
           ELSE result.out]

\* The dispatcher of lines 245-263.  A command that is no async function
\* throws inside the try block, and the catch block reports 'error: ...'; the
\* promise of an async command is returned without await, so its rejection
\* passes the catch block by and ends the process as an uncaught error, with
\* the stack of the error on stderr and exit code 1.
Dispatch(isAsync, result, exitCode) ==
  [threw |-> result.threw, message |-> result.message,
   exit |-> IF result.threw THEN 1 ELSE exitCode,
   out |-> IF result.threw
           THEN IF isAsync
                THEN result.out \o << <<"Uncaught Error: ", result.message>> >>
                ELSE result.out \o << <<"error: ", result.message>> >>
           ELSE result.out]

UsageText == << <<"obsidian-life-memory CLI">>, <<>>, <<"Commands:">> >>

\* The record of a command: what was asked, what it found, and what it came
\* to.  initBase is the configuration before the init that ran just before.
Record(argv, answers, done) ==
  [argv |-> argv, answers |-> answers,
   before |-> [config |-> cli.config, disk |-> cli.disk, initBase |-> cli.initBase],
   threw |-> done.threw, message |-> done.message,
   exit |-> done.exit, out |-> done.out]

Finish(argv, answers, config, disk, done) ==
  cli' = [config |-> config, disk |-> disk, n |-> cli.n + 1,
          initBase |-> IF ParsedCmd(argv) = "init" /\ done.exit = 0
                       THEN << [config |-> cli.config,
                                applied |-> done.out[Len(done.out)] = <<"Done.">>] >>
                       ELSE <<>>,
          last |-> Record(argv, answers, done)]

RestVars ==
  <<note, governanceFiles, state, clock, bootstrapFiles, run, edits, trunc,
    io, vaultEnv, doc, tree, pipe, day>>

\* help, --help, -h, no command, and a command the CLI does not know.
Usage(argv) ==
  /\ cli.n < MaxCommands
  /\ ParsedCmd(argv) \notin {"init", "sync", "doctor", "rollback"}
  /\ Finish(argv, NoAnswers, cli.config, cli.disk,
            Dispatch(FALSE, Returned(UsageText),
                     IF ParsedCmd(argv) \in {"help", "--help", "-h"} THEN 0 ELSE 1))
  /\ UNCHANGED RestVars

\* installHookAndSync(false): the sync script, then the copy of the hook.
installHookAndSync(disk) == [disk EXCEPT !.skill = TRUE, !.hook = TRUE]

\* cmdInit.  The questions are asked without --yes; the snapshot is taken; the
\* plan is printed; without --yes and --dry-run the user has to confirm; then
\* the sync, the Context directory, the templates, the heartbeat and the
\* install snapshot, each printed only under --dry-run, except the directory.
cmdInit(argv, answers, failure) ==
  /\ cli.n < MaxCommands
  /\ ParsedCmd(argv) = "init"
  /\ \E dryRun \in {"--dry-run" \in ParsedFlags(argv)},
        yes \in {"--yes" \in ParsedFlags(argv)} :
     \E enableHeartbeat \in
          {HeartbeatChoice(yes, "--enable-heartbeat" \in ParsedFlags(argv), answers.hb)} :
     \E timezone \in
          {IF ~yes /\ enableHeartbeat /\ answers.tz # "" THEN answers.tz
           ELSE ValueOr(argv, "--timezone", "UTC")},
        every \in {ValueOr(argv, "--every", "30m")},
        snapshot \in {snapshotConfig(cli.config)},
        plan \in {<< <<"Planned actions:">>,
                     IF enableHeartbeat THEN <<"- Configure heartbeat gardener">>
                     ELSE <<"- Leave heartbeat config unchanged">> >>} :
       /\ answers = Asked(answers, ~yes, ~yes /\ enableHeartbeat, ~yes /\ ~dryRun)
       /\ failure.at # "none" => ~dryRun /\ (yes \/ SaysYes(answers.ok))
       /\ failure.at = "set" => enableHeartbeat /\ failure.k <= Len(HeartbeatOrder)
       /\ IF ~yes /\ ~dryRun /\ ~SaysYes(answers.ok)
          THEN Finish(argv, answers, cli.config, cli.disk,
                      Dispatch(TRUE, Returned(plan \o << <<"Cancelled.">> >>), 0))
          ELSE IF failure.at = "sync"
          THEN Finish(argv, answers, cli.config, cli.disk,
                      Dispatch(TRUE, Threw(plan, "command failed: bash"), 0))
          ELSE IF failure.at = "set"
          THEN Finish(argv, answers,
                      applyHeartbeatUntil(cli.config, timezone, every, failure.k),
                      [installHookAndSync(cli.disk) EXCEPT
                         !.contextDir = TRUE, !.now = TRUE, !.policy = TRUE],
                      Dispatch(TRUE, Threw(plan, "command failed: openclaw"), 0))
          ELSE IF dryRun
          THEN Finish(argv, answers, cli.config,
                      [cli.disk EXCEPT !.contextDir = TRUE],
                      Dispatch(TRUE, Returned(plan \o << <<"Done. (dry-run)">> >>), 0))
          ELSE Finish(argv, answers,
                      IF enableHeartbeat THEN applyHeartbeat(cli.config, timezone, every)
                      ELSE cli.config,
                      [installHookAndSync(cli.disk) EXCEPT
                         !.contextDir = TRUE, !.now = TRUE, !.policy = TRUE,
                         !.install = << [keys |-> snapshot,
                                         options |-> [enableHeartbeat |-> enableHeartbeat,
                                                      timezone |-> timezone,
                                                      every |-> every]] >>],
                      Dispatch(TRUE, Returned(plan \o << <<"Done.">> >>), 0))
  /\ UNCHANGED RestVars

\* cmdSync.
cmdSync(syncFails) ==
  /\ cli.n < MaxCommands
  /\ IF syncFails
     THEN Finish(<<"sync">>, NoAnswers, cli.config, cli.disk,
                 Dispatch(FALSE, Threw(<<>>, "command failed: bash"), 0))
     ELSE Finish(<<"sync">>, NoAnswers, cli.config, installHookAndSync(cli.disk),
                 Dispatch(FALSE, Returned(<< <<"Synced skill and hook.">> >>), 0))
  /\ UNCHANGED RestVars

\* cmdDoctor: the checks are printed, and the exit code is 1 when one fails.
cmdDoctor ==
  /\ cli.n < MaxCommands
  /\ \E failed \in {~cli.disk.skill \/ ~cli.disk.hook
                    \/ ~getConfig(cli.config, "agents.defaults.heartbeat.every").ok
                    \/ getConfig(cli.config, "agents.defaults.heartbeat.every").out = <<>>} :
       Finish(<<"doctor">>, NoAnswers, cli.config, cli.disk,
              Dispatch(FALSE, Returned(<< <<"checks">> >>), IF failed THEN 1 ELSE 0))
  /\ UNCHANGED RestVars

\* The prompt of the confirmation of cmdRollback, as readline prints it.
RollbackQuestion == <<"Restore saved OpenClaw config values now? (y/N): ">>

\* cmdRollback: it throws without an install snapshot; without --dry-run the
\* user has to confirm; then the saved values are restored.
cmdRollback(argv, answers) ==
  /\ cli.n < MaxCommands
  /\ ParsedCmd(argv) = "rollback"
  /\ \E dryRun \in {"--dry-run" \in ParsedFlags(argv)} :
       /\ answers = Asked(answers, FALSE, FALSE, ~dryRun /\ cli.disk.install # <<>>)
       /\ IF cli.disk.install = <<>>
          THEN Finish(argv, answers, cli.config, cli.disk,
                      Dispatch(TRUE, Threw(<<>>, "No install snapshot found"), 0))
          ELSE IF ~dryRun /\ ~SaysYes(answers.ok)
          THEN Finish(argv, answers, cli.config, cli.disk,
                      Dispatch(TRUE, Returned(<< RollbackQuestion, <<"Cancelled.">> >>), 0))
          ELSE IF dryRun
          THEN Finish(argv, answers, cli.config, cli.disk,
                      Dispatch(TRUE, Returned(<< <<"Rollback dry-run complete.">> >>), 0))
          ELSE Finish(argv, answers,
                      restoreConfig(cli.disk.install[1].keys, cli.config), cli.disk,
                      Dispatch(TRUE, Returned(<< RollbackQuestion,
                                                 <<"Rollback complete.">> >>), 0))
  /\ UNCHANGED RestVars

NoCommand ==
  [argv |-> <<>>, answers |-> NoAnswers,
   before |-> [config |-> NothingSet, disk |-> FreshDisk, initBase |-> <<>>],
   threw |-> FALSE, message |-> "",
   exit |-> 0, out |-> <<>>]

InitCli ==
  /\ note = [lines |-> <<>>, eol |-> FALSE]
  /\ governanceFiles = <<>>
  /\ state = <<>>
  /\ clock = 0
  /\ bootstrapFiles = <<>>
  /\ run = NoRun
  /\ edits = NoEdits
  /\ trunc = NoTrunc
  /\ io = NoIo
  /\ vaultEnv = NoVault
  /\ doc = NoDoc
  /\ tree = NoTree
  /\ pipe = NoPipe
  /\ day = NoDay
  /\ cli \in [config : PriorConfigs, disk : PriorDisks, n : {0},
              initBase : {<<>>}, last : {NoCommand}]

NextCli ==
  \/ \E argv \in Argvs : Usage(argv)
  \/ \E argv \in Argvs, answers \in Answers, failure \in Failures :
       cmdInit(argv, answers, failure)
  \/ \E syncFails \in BOOLEAN : cmdSync(syncFails)
  \/ cmdDoctor
  \/ \E argv \in Argvs, answers \in Answers : cmdRollback(argv, answers)

SpecCli == InitCli /\ [][NextCli]_vars

(***************************************************************************)
(* scripts/sync_live_copy.sh: the canonical repository synchronised into   *)
(* the live copy.  A tree is a function from the paths of its files (a     *)
(* path is the sequence of its components) to the content of the file.     *)
(* The script is run with its default arguments, as installHookAndSync     *)
(* runs it: both directories are given with a trailing slash, so the       *)
(* content of the source goes to the content of the destination.           *)
(***************************************************************************)

\* The three --exclude patterns of lines 14-16.  Each ends with a slash, so
\* it matches directories only.
ExcludePatterns ==
  { <<".git">>, <<"local-overrides">>, <<"scripts", "__pycache__">> }

\* An exclude pattern anchored at the root of the transfer ('/.git/').
MatchesAnchored(pattern, dir) == dir = pattern

\* rsync matches a pattern with no leading slash against the end of the path
\* of a directory, at any depth of the transfer.
MatchesDir(pattern, dir) ==
  /\ Len(dir) >= Len(pattern)
  /\ SubSeq(dir, Len(dir) - Len(pattern) + 1, Len(dir)) = pattern

\* A file is excluded when one of the directories above it is excluded.
Excluded(path) ==
  \E k \in 1..(Len(path) - 1) :
    \E pattern \in ExcludePatterns : MatchesDir(pattern, SubSeq(path, 1, k))

\* rsync -a --delete with the excludes: the files of the source that are not
\* excluded are copied over the destination; of the files of the destination
\* that the source has not, those not excluded are deleted; an excluded file
\* is neither sent nor deleted (there is no --delete-excluded).
rsync(src, dst) ==
  [path \in {p \in DOMAIN src : ~Excluded(p)} \cup
            {p \in DOMAIN dst : Excluded(p)}
     |-> IF Excluded(path) THEN dst[path] ELSE src[path]]

\* The files a tree of the model may hold.
TreePaths ==
  { <<"SKILL.md">>,
    <<".git", "config">>,
    <<"local-overrides", "notes.md">>,
    <<"scripts", "__pycache__", "sync.pyc">>,
    <<"vendor", ".git", "config">>,
    <<"docs", "local-overrides">> }

\* The canonical repository holds canonical content, the live copy may have
\* been edited on the instance.
Trees(content) == UNION {[paths -> {content}] : paths \in SUBSET TreePaths}

InitTree ==
  /\ note = [lines |-> <<>>, eol |-> FALSE]
  /\ governanceFiles = <<>>
  /\ state = <<>>
  /\ clock = 0
  /\ bootstrapFiles = <<>>
  /\ run = NoRun
  /\ edits = NoEdits
  /\ trunc = NoTrunc
  /\ io = NoIo
  /\ vaultEnv = NoVault
  /\ doc = NoDoc
  /\ cli = NoCli
  /\ pipe = NoPipe
  /\ day = NoDay
  /\ tree \in [src : Trees("canonical"), dst : Trees("live"),
               before : {<<>>}, synced : {FALSE}]

\* One run of the script.
SyncLiveCopy ==
  /\ ~tree.synced
  /\ tree' = [src |-> tree.src, dst |-> rsync(tree.src, tree.dst),
              before |-> tree.dst, synced |-> TRUE]
  /\ UNCHANGED <<note, governanceFiles, state, clock, bootstrapFiles, run,
                 edits, trunc, io, vaultEnv, doc, cli, pipe, day>>

NextTree == SyncLiveCopy

SpecTree == InitTree /\ [][NextTree]_vars

(***************************************************************************)
(* The rebuild of the handler on a cache miss, step by step: the delta,    *)
(* the structural truncator, the daily sub-budget, the unified snapshot    *)
(* and the artifact.  The note is typed from lines that hold wikilinks,    *)
(* tags and tasks.                                                         *)
(***************************************************************************)

\* The lines the daily note is typed from: a heading, a task with a
\* wikilink, a tagged line, a plain line, a line that fills the daily
\* budget, a long line with a wikilink, a long task and a long tagged line.
PipeLines ==
  { <<"#", " ", "H">>,
    <<"-", " ", "[", " ", "]", " ", "t", " ", "[", "[", "b", "]", "]">>,
    <<"c", " ", "#", "t">>,
    <<"a">>,
    <<"x{7176}">>,
    <<"x{5000}", " ", "[", "[", "b", "]", "]">>,
    <<"-", " ", "[", " ", "]", " ", "x{3978}">>,
    <<"x{3978}", " ", "#", "t">> }

\* The daily note as the handler reads it.
PipeText == NormalizeEol(Join(pipe.lines, <<LF>>))

TypePipeLine(l) ==
  /\ ~pipe.done
  /\ Len(pipe.lines) < MaxPipeLines
  /\ pipe' = [pipe EXCEPT !.lines = Append(@, l)]
  /\ UNCHANGED <<note, governanceFiles, state, clock, bootstrapFiles, run, edits,
                 trunc, io, vaultEnv, doc, cli, tree, day>>

\* The checkpoints today's entry may hold when the rebuild starts: no entry,
\* or an entry with a lastLineCount.
Checkpoints == {<<>>} \cup {<<k>> : k \in 0..MaxPipeLines}

\* Lines 980-1039 of the handler on a cache miss: the delta after the
\* checkpoint of today's entry (none when today has no entry), the three
\* builders one after the other, and the artifact.
Rebuild(g, checkpoint) ==
  /\ ~pipe.done
  /\ \E governanceContext \in {buildGovernanceContext(g)} :
     \E fullDailySnapshot \in
          {buildObsidianSafeSnapshot(PipeText, MAX_SNAPSHOT_CHARS)},
        deltaText \in
          {DeltaText(checkpoint # <<>>,
                     IF checkpoint # <<>> THEN checkpoint[1] ELSE 0, PipeText)} :
     \E dailyContent \in
          {buildTokenAwareSnapshot(deltaText, fullDailySnapshot,
                                   DAILY_TOKEN_BUDGET)} :
     \E safeSnapshot \in
          {buildUnifiedSnapshot(dailyContent, governanceContext,
                                MAX_SNAPSHOT_TOKENS)} :
       pipe' = [pipe EXCEPT !.done = TRUE,
                            !.governance = governanceContext,
                            !.delta = deltaText,
                            !.truncated = fullDailySnapshot,
                            !.daily = dailyContent,
                            !.snapshot = safeSnapshot,
                            !.artifact =
                               IF safeSnapshot # <<>>
                               THEN SnapshotArtifact(safeSnapshot)
                               ELSE EmptyArtifact(governanceContext)]
  /\ UNCHANGED <<note, governanceFiles, state, clock, bootstrapFiles, run, edits,
                 trunc, io, vaultEnv, doc, cli, tree, day>>

NextPipe ==
  \/ \E l \in PipeLines : TypePipeLine(l)
  \/ \E g \in GovernanceChoices, checkpoint \in Checkpoints :
       Rebuild(g, checkpoint)

InitPipe == Init /\ ~note.eol

SpecPipe == InitPipe /\ [][NextPipe]_vars

(***************************************************************************)
(* The governance files of a vault, read by readGovernanceFiles and put    *)
(* together by buildGovernanceContext.                                     *)
(***************************************************************************)

\* What a governance file may hold: nothing, a line that is no constraint,
\* a strong bullet, and a critical section.
GovernanceTexts ==
  { <<>>,
    <<"a">>,
    <<"-", " ", "NEVER", " ", "a">>,
    <<"#", "#", " ", "Safety", LF, "b">> }

\* The vaults of the model: each of the four files is missing or holds one
\* of the texts.
Vaults ==
  UNION { [files -> GovernanceTexts] :
            files \in SUBSET {GOVERNANCE_FILES[i] : i \in 1..Len(GOVERNANCE_FILES)} }

InitFiles ==
  /\ note = [lines |-> <<>>, eol |-> FALSE]
  /\ governanceFiles \in Vaults
  /\ state = <<>>
  /\ clock = 0
  /\ bootstrapFiles = <<>>
  /\ run = NoRun
  /\ edits = NoEdits
  /\ trunc = NoTrunc
  /\ io = NoIo
  /\ vaultEnv = NoVault
  /\ doc = NoDoc
  /\ cli = NoCli
  /\ tree = NoTree
  /\ pipe = NoPipe
  /\ day = NoDay

\* Lines 969-970 of the handler: the files that can be read go into the
\* governance context.
ReadGovernance(unreadable) ==
  /\ ~doc.done
  /\ unreadable \subseteq DOMAIN governanceFiles
  /\ doc' = [doc EXCEPT
               !.done = TRUE,
               !.unreadable = unreadable,
               !.context = buildGovernanceContext(
                             readGovernanceFiles(governanceFiles, unreadable))]
  /\ UNCHANGED <<note, governanceFiles, state, clock, bootstrapFiles, run, edits,
                 trunc, io, vaultEnv, cli, tree, pipe, day>>

NextFiles ==
  \E unreadable \in {{}, {"SOUL.md"}, {"MEMORY.md", "TOOLS.md"}} :
    ReadGovernance(unreadable)

SpecFiles == InitFiles /\ [][NextFiles]_vars

(***************************************************************************)
(* The handler as the hook of every event: lines 948-953 come before the   *)
(* body that the action handler models.                                    *)
(***************************************************************************)

\* The types of the events the hook is called with ("" for an event that
\* has no type).
EventTypes == {"agent:bootstrap", "agent:message", "command:new", ""}

\* A guard that lets every event of an agent through.
isAgentEvent(type) == type \in {"agent:bootstrap", "agent:message"}

\* event.type !== 'agent:bootstrap' is false.
isBootstrapEvent(type) == type = "agent:bootstrap"

\* The hook is called with an event: the body runs for a bootstrap event,
\* and the call returns at once for any other.  Time goes on either way.
handlerOn(type) ==
  IF isBootstrapEvent(type) THEN handler
  ELSE /\ clock < MaxRuns
       /\ clock' = clock + 1
       /\ UNCHANGED <<note, governanceFiles, state, bootstrapFiles, run, edits,
                      trunc, io, vaultEnv, doc, cli, tree, pipe, day>>

NextEvents ==
  \/ \E l \in NoteLines : AppendLine(l)
  \/ \E type \in EventTypes : handlerOn(type)

SpecEvents == Init /\ [][NextEvents]_vars

(***************************************************************************)
(* One invocation of the handler around midnight.  The clock ticks while   *)
(* the handler runs, also while execSync waits for the content-source      *)
(* command, and every call of getTodayDateString reads the clock anew.     *)
(* The vault holds the daily files of two days, date -> lines.             *)
(***************************************************************************)

Tomorrow == "2026-02-15"

\* getTodayDateString() at the time now: new Date() and its local date.
getTodayDateString(now) == IF now < Midnight THEN today ELSE Tomorrow

\* The lines a user logs in these behaviours.
DayLines == {<<"a">>, <<"b">>}

\* The text of the daily file of the date, and whether the file exists.
DailyFileOf(files, date) ==
  IF date \in DOMAIN files
  THEN [exists |-> TRUE, text |-> NoteText([lines |-> files[date], eol |-> TRUE])]
  ELSE [exists |-> FALSE, text |-> <<>>]

\* What the invocation holds: the date of line 956, the entry of that date,
\* the source of the text, the date in the name of the file the fallback
\* looked for, and the text.
NoInvocation ==
  [today |-> today, hasDayState |-> FALSE, source |-> "none",
   filename |-> today, text |-> <<>>, wrote |-> FALSE]

InitDate ==
  /\ note = [lines |-> <<>>, eol |-> FALSE]
  /\ governanceFiles = <<>>
  /\ state = <<>>
  /\ clock = 0
  /\ bootstrapFiles = <<>>
  /\ run = NoRun
  /\ edits = NoEdits
  /\ trunc = NoTrunc
  /\ io = NoIo
  /\ vaultEnv = NoVault
  /\ doc = NoDoc
  /\ cli = NoCli
  /\ tree = NoTree
  /\ pipe = NoPipe
  /\ day \in [files : {<<>>} \cup {[d \in {today} |-> <<l>>] : l \in DayLines},
              pc : {"idle"}, runs : {0}, inv : {NoInvocation}]

DateRest ==
  <<note, governanceFiles, bootstrapFiles, run, edits, trunc, io, vaultEnv, doc,
    cli, tree, pipe>>

\* Time passes.
Tick ==
  /\ clock < MaxTicks
  /\ clock' = clock + 1
  /\ UNCHANGED <<state, day>>
  /\ UNCHANGED DateRest

\* The user logs the first line of the day: the daily file of the date is
\* created.
LogToday(l) ==
  /\ getTodayDateString(clock) \notin DOMAIN day.files
  /\ day' = [day EXCEPT
               !.files = [d \in DOMAIN @ \cup {getTodayDateString(clock)} |->
                            IF d \in DOMAIN @ THEN @[d] ELSE <<l>>]]
  /\ UNCHANGED <<state, clock>>
  /\ UNCHANGED DateRest

\* Lines 956-958: const today = getTodayDateString(), the state and the
\* entry of today; then execSync starts the content-source command.
handlerBegin ==
  /\ day.pc = "idle"
  /\ day.runs < MaxRuns
  /\ day' = [day EXCEPT
               !.pc = "cli",
               !.inv = [NoInvocation EXCEPT
                          !.today = getTodayDateString(clock),
                          !.hasDayState = getTodayDateString(clock) \in DOMAIN state]]
  /\ UNCHANGED <<state, clock>>
  /\ UNCHANGED DateRest

\* Lines 962-966 at the time the command ends: it printed the note of the
\* day, or it threw (a status other than 0, or the timeout of 3 seconds) and
\* readDailyViaFileFallback builds the file name from a getTodayDateString()
\* of its own (line 574).
handlerAcquire(cliWorks) ==
  /\ day.pc = "cli"
  /\ \E filename \in {getTodayDateString(clock)} :
       day' = [day EXCEPT
                 !.pc = "read",
                 !.inv = [@ EXCEPT
                            !.source = IF cliWorks THEN "cli" ELSE "fallback",
                            !.filename = filename,
                            !.text = DailyFileOf(day.files, filename).text]]
  /\ UNCHANGED <<state, clock>>
  /\ UNCHANGED DateRest

\* Lines 971-1022 for the key: on a miss the entry built from the text is
\* stored as state[today], with the today of line 956.
handlerStore ==
  /\ day.pc = "read"
  /\ \E normalizedOutput \in {NormalizeEol(day.inv.text)} :
     \E hit \in {/\ day.inv.today \in DOMAIN state
                 /\ state[day.inv.today].noteHash = computeSha256(normalizedOutput)} :
       /\ state' = IF hit THEN state
                   ELSE [d \in DOMAIN state \cup {day.inv.today} |->
                           IF d = day.inv.today
                           THEN [noteHash |-> computeSha256(normalizedOutput),
                                 lastLineCount |-> LineCountOf(normalizedOutput)]
                           ELSE state[d]]
       /\ day' = [day EXCEPT !.pc = "idle", !.runs = @ + 1, !.inv.wrote = ~hit]
  /\ UNCHANGED clock
  /\ UNCHANGED DateRest

NextDate ==
  \/ Tick
  \/ \E l \in DayLines : LogToday(l)
  \/ handlerBegin
  \/ \E cliWorks \in BOOLEAN : handlerAcquire(cliWorks)
  \/ handlerStore

SpecDate == InitDate /\ [][NextDate]_vars

(***************************************************************************)
(* Properties of the handler, checked under Spec.                          *)
(***************************************************************************)

\* The hash the handler computes for a note and a set of governance files.
HashOfContent(n, govFiles) ==
  computeSha256(<<computeSha256(NormalizeEol(NoteText(n))),
                  computeSha256(buildGovernanceContext(govFiles))>>)

\* The step is an invocation of the handler that reads the content the
\* invocation before it read.
InvokedAgainOnSameContent ==
  /\ clock' = clock + 1
  /\ run.ran
  /\ run.note = note
  /\ run.governanceFiles = governanceFiles

\* C1 (as stated): two invocations on the same day with unchanged content
\* give a byte-identical artifact, and the second leaves the day's entry
\* (lastUpdatedIso included) as it was and does not rewrite the state file,
\* whatever the content, the empty note included.
C1_IdempotentAsStated ==
  [][InvokedAgainOnSameContent
       => /\ bootstrapFiles' = bootstrapFiles
          /\ state' = state
          /\ ~run'.wrote]_vars

\* C1 (amended): two invocations on the same day with unchanged content give
\* a byte-identical artifact and snapshot; when the stored snapshot is not
\* empty the second is a cache hit that leaves the day's entry as it was and
\* does not rewrite the state file; when the stored snapshot is empty the
\* second rebuilds and rewrites the entry with a new lastUpdatedIso.
C1_Idempotent ==
  [][InvokedAgainOnSameContent
       => /\ bootstrapFiles' = bootstrapFiles
          /\ run'.safeSnapshot = run.safeSnapshot
          /\ state[today].snapshot # <<>> => (state' = state /\ run'.hit /\ ~run'.wrote)
          /\ state[today].snapshot = <<>>
               => /\ run'.wrote
                  /\ state'[today].lastUpdatedIso = clock
                  /\ state'[today].lastUpdatedIso # state[today].lastUpdatedIso]_vars

\* An invocation was served from the cache: the stored snapshot was returned.
C1_Witness ==
  /\ run.ran /\ run.hit /\ ~run.wrote
  /\ run.safeSnapshot # <<>>
  /\ clock = MaxRuns

\* C2: after an invocation the day's entry carries the hash of the content
\* the invocation read and the snapshot it returned; and when there was no
\* entry, or the entry's hash differed, the invocation rebuilt and overwrote
\* the entry.
C2_NoStaleSnapshot ==
  run.ran =>
    /\ today \in DOMAIN state
    /\ state[today].combinedHash = HashOfContent(run.note, run.governanceFiles)
    /\ state[today].snapshot = run.safeSnapshot
    /\ run.safeSnapshot # <<>>
         => bootstrapFiles["OBSIDIAN_DAILY.md"] = SnapshotArtifact(state[today].snapshot)
    /\ (~run.hadEntry
        \/ run.priorCombinedHash # HashOfContent(run.note, run.governanceFiles))
         => /\ run.wrote
            /\ state[today].lastUpdatedIso = clock - 1

\* An invocation found an entry with another hash and overwrote it.
C2_Witness ==
  /\ run.ran /\ run.hadEntry /\ run.wrote
  /\ run.priorCombinedHash # state[today].combinedHash
  /\ run.safeSnapshot # <<>>

\* What follows the n-th line feed of a text.
AfterLineFeed(text, n) ==
  IF n = 0 THEN text
  ELSE LET at == CHOOSE i \in 1..Len(text) :
                   /\ text[i] = LF
                   /\ Cardinality({j \in 1..i : text[j] = LF}) = n
       IN  SubSeq(text, at + 1, Len(text))

IsBlankLine(line) == \A i \in 1..Len(line) : IsWs(line[i])

\* A text without its leading and trailing blank lines, its other lines as
\* they are.
WithoutOuterBlankLines(text) ==
  LET lines == Split(text)
      filled == {i \in 1..Len(lines) : ~IsBlankLine(lines[i])}
  IN  IF filled = {} THEN <<>>
      ELSE Join(SubSeq(lines,
                       CHOOSE i \in filled : \A j \in filled : i <= j,
                       CHOOSE i \in filled : \A j \in filled : j <= i), <<LF>>)

\* t is s without its leading and trailing whitespace.
IsTrimOf(t, s) ==
  /\ t # <<>> => (~IsWs(t[1]) /\ ~IsWs(t[Len(t)]))
  /\ \E i \in 0..Len(s) :
       /\ i + Len(t) <= Len(s)
       /\ SubSeq(s, i + 1, i + Len(t)) = t
       /\ \A k \in (1..i) \cup ((i + Len(t) + 1)..Len(s)) : IsWs(s[k])

\* The last invocation rebuilt, an entry recorded N lines, the note read now
\* has more than N lines and its first N lines are those read before.
GrewSinceEntry ==
  /\ run.ran /\ run.wrote /\ run.hadEntry
  /\ run.priorLineCount < run.lineCount
  /\ run.sharesPrefix

\* C3 (as stated): on such a rebuild the delta is the text after line N,
\* trimmed only of its leading and trailing blank lines.
C3_DeltaAsStated ==
  GrewSinceEntry =>
    run.deltaText = WithoutOuterBlankLines(
                      AfterLineFeed(NormalizeEol(NoteText(run.note)), run.priorLineCount))

\* C3 (amended): on such a rebuild the delta is the text after line N without
\* its leading and trailing whitespace: no line before N+1 is in it, and the
\* indentation of its first line and the spaces that end its last are lost.
C3_Delta ==
  GrewSinceEntry =>
    IsTrimOf(run.deltaText,
             AfterLineFeed(NormalizeEol(NoteText(run.note)), run.priorLineCount))

\* A rebuild took a delta that is not empty.
C3_Witness ==
  /\ GrewSinceEntry
  /\ run.priorLineCount > 0
  /\ run.deltaText # <<>>

\* The lines under 'Since you last spoke:' in a snapshot, up to the separator
\* that ends the block (none when the snapshot has no such block).
HasSinceBlock(snapshot) ==
  \E i \in 1..Len(snapshot) : snapshot[i] = "Since you last spoke:"

SinceLines(snapshot) ==
  IF ~HasSinceBlock(snapshot) THEN <<>>
  ELSE LET at == CHOOSE i \in 1..Len(snapshot) : snapshot[i] = "Since you last spoke:"
           rules == {e \in at..Len(snapshot) : snapshot[e] = "---"}
           stop == IF rules = {} THEN Len(snapshot)
                   ELSE (CHOOSE e \in rules : \A f \in rules : e <= f) - 3
       IN  Split(SubSeq(snapshot, at + 2, stop))

\* C4 (as stated): a note of N lines was read by one invocation and k lines
\* were appended to it, with or without a line terminator at its end; the
\* next invocation stores a snapshot whose 'Since you last spoke:' block
\* lists the k appended lines, and records N + k lines.
C4_AppendAcrossSessions ==
  (/\ run.ran /\ run.baseLines >= 1
   /\ run.grewBy # <<>>)
    => /\ HasSinceBlock(state[today].snapshot)
       /\ Len(SinceLines(state[today].snapshot)) = Len(run.grewBy)
       /\ \A i \in 1..Len(run.grewBy) :
            IsTrimOf(Trim(SinceLines(state[today].snapshot)[i]), run.grewBy[i])
       /\ state[today].lastLineCount = run.baseLines + Len(run.grewBy)

\* C5: a rebuild that finds no entry for the day, or a note that has no more
\* lines than the entry recorded, takes no delta and stores a snapshot
\* without a 'Since you last spoke:' block.
C5_NoDeltaWithoutGrowth ==
  (run.ran /\ run.wrote /\ (~run.hadEntry \/ run.lineCount <= run.priorLineCount))
    => /\ run.deltaText = <<>>
       /\ ~HasSinceBlock(run.safeSnapshot)
       /\ ~HasSinceBlock(state[today].snapshot)

\* A rebuild found an entry and a note that had not grown (the governance
\* changed, or the note shrank), and one found no entry under a note that
\* has lines.
C5_Witness ==
  /\ run.ran /\ run.wrote /\ run.hadEntry
  /\ run.lineCount <= run.priorLineCount
  /\ run.lineCount > 0
  /\ run.safeSnapshot # <<>>

\* C6 (as stated): every snapshot stored in the state is at most
\* MAX_SNAPSHOT_TOKENS tokens, MAX_SNAPSHOT_CHARS characters, long.
C6_TotalBudget ==
  \A d \in DOMAIN state :
    /\ Chars(state[d].snapshot) <= MAX_SNAPSHOT_CHARS
    /\ estimateTokens(state[d].snapshot) <= MAX_SNAPSHOT_TOKENS

\* The governance block of a snapshot: what follows its header line, up to
\* the separator before the daily block.
HeaderAt(snapshot, header) ==
  CHOOSE i \in 1..Len(snapshot) : snapshot[i] = header

HasHeader(snapshot, header) ==
  \E i \in 1..Len(snapshot) : snapshot[i] = header

GovernanceBlockOf(snapshot) ==
  IF ~HasHeader(snapshot, "# Behavioral Governance") THEN <<>>
  ELSE SubSeq(snapshot, HeaderAt(snapshot, "# Behavioral Governance") + 2,
              IF HasHeader(snapshot, "# Today's Context (from daily note)")
              THEN HeaderAt(snapshot, "# Today's Context (from daily note)")
                     - 1 - Len(Separator)
              ELSE Len(snapshot))

\* The daily block of a snapshot: what follows its header line.
DailyBlockOf(snapshot) ==
  IF ~HasHeader(snapshot, "# Today's Context (from daily note)") THEN <<>>
  ELSE SubSeq(snapshot, HeaderAt(snapshot, "# Today's Context (from daily note)") + 2,
              Len(snapshot))

\* C7: in every stored snapshot the governance content is at most 40% of
\* MAX_SNAPSHOT_TOKENS and the daily content at most 60% of it, each
\* measured without the header line the assembler puts over it.
C7_BudgetSplit ==
  \A d \in DOMAIN state :
    /\ 10 * estimateTokens(GovernanceBlockOf(state[d].snapshot)) <= 4 * MAX_SNAPSHOT_TOKENS
    /\ 10 * estimateTokens(DailyBlockOf(state[d].snapshot)) <= 6 * MAX_SNAPSHOT_TOKENS

\* A snapshot was assembled from a governance context and a note that each
\* exceed their share, and holds a block of each.
C7_Witness ==
  /\ run.ran /\ run.wrote
  /\ 10 * estimateTokens(buildGovernanceContext(run.governanceFiles)) > 4 * MAX_SNAPSHOT_TOKENS
  /\ 10 * estimateTokens(NoteText(run.note)) > 6 * MAX_SNAPSHOT_TOKENS
  /\ GovernanceBlockOf(state[today].snapshot) # <<>>
  /\ DailyBlockOf(state[today].snapshot) # <<>>

(***************************************************************************)
(* Properties of the truncator, checked under SpecTrunc.                   *)
(***************************************************************************)

\* The lines of the input, line ends normalised.
InputLines == Split(NormalizeEol(TruncRaw))

OutputLines == Split(trunc.out)

\* The lines the truncator writes itself: the section headings, the blank
\* lines between sections, the lines of the joined wikilinks and of the
\* joined tags, and the marker.
SynthesizedLines(text) ==
  { <<>>, <<"## Recent Snapshot">>, <<"## Tasks (Preserved)">>,
    <<"## Wikilinks (Graph Integrity)">>, <<"## Tags">>, <<"## Comments">>,
    <<"[Truncated safely by line boundaries to preserve Obsidian syntax]">> }
  \cup UNION { {Split(Join(tokens, <<" ">>))[i] :
                  i \in 1..Len(Split(Join(tokens, <<" ">>)))} :
               tokens \in {extractWikilinks(text), extractTags(text)} \ {<<>>} }

\* The input is over the budget of the call.
OverBudget == trunc.done /\ Chars(TruncText) > trunc.maxChars

\* C8 (as stated): every line of the truncator's output is a verbatim line
\* of the input.
C8_LineAtomicityAsStated ==
  trunc.done =>
    \A ins \in {InputLines}, outs \in {OutputLines} :
      \A i \in 1..Len(outs) : \E k \in 1..Len(ins) : outs[i] = ins[k]

\* C8 (amended): every line of the truncator's output is a whole line of the
\* input, verbatim or without the whitespace at its ends, or a line the
\* truncator writes itself (a section heading, a blank separator, the joined
\* wikilinks, the joined tags, the marker); no line is cut at the budget.
C8_LineAtomicity ==
  trunc.done =>
    \A ins \in {InputLines}, outs \in {OutputLines},
       synthesized \in {SynthesizedLines(TruncText)} :
      \A i \in 1..Len(outs) :
        \/ outs[i] \in synthesized
        \/ \E k \in 1..Len(ins) : outs[i] = ins[k] \/ IsTrimOf(outs[i], ins[k])

\* An input over the budget was clipped: a line of it is in the output as it
\* was, and a line of it is not in the output.
C8_Witness ==
  /\ OverBudget
  /\ \E i \in 1..Len(OutputLines) :
       /\ OutputLines[i] # <<>>
       /\ \E k \in 1..Len(InputLines) : OutputLines[i] = InputLines[k]
  /\ \E k \in 1..Len(InputLines) :
       \A i \in 1..Len(OutputLines) : ~IsTrimOf(OutputLines[i], InputLines[k])

\* C9 (as stated, for the budget the handler calls the truncator with): the
\* output of the truncator, its headings and its marker included, is at most
\* maxChars characters long.
C9_TruncatorBound ==
  (trunc.done /\ trunc.maxChars = MAX_SNAPSHOT_CHARS)
    => Chars(trunc.out) <= trunc.maxChars

\* C10 (as stated, for the budget the handler calls the truncator with): when
\* the input is over the budget, every wikilink and every tag of the input
\* is in the output, the final trim included.
C10_StructuralPreservation ==
  (OverBudget /\ trunc.maxChars = MAX_SNAPSHOT_CHARS) =>
    \A tokens \in {extractWikilinks(TruncText) \o extractTags(TruncText)} :
      \A i \in 1..Len(tokens) : Includes(trunc.out, tokens[i])

(***************************************************************************)
(* Properties of resolveVaultRoot, checked under SpecVault.                *)
(***************************************************************************)

\* The config file the call looks at.
ConfigSeen == ConfigAt(vaultEnv.env, Homedir(vaultEnv.env))

\* The config file exists, can be read, parses and carries a vault_path.
ConfigCarriesPath ==
  /\ ConfigSeen.kind = "object"
  /\ ConfigSeen.vault_path # <<>>

\* The priority that follows from the given tests of "set" and "carries".
PriorityHolds(envSet, configCarries) ==
  /\ ~vaultEnv.result.threw
  /\ vaultEnv.result.path =
       IF envSet THEN vaultEnv.env.OBSIDIAN_VAULT_PATH[1]
       ELSE IF configCarries THEN ConfigSeen.vault_path[1]
       ELSE Cwd

\* C19 as stated: the result is the value of OBSIDIAN_VAULT_PATH whenever the
\* variable is set, else the vault_path of the config file whenever the file
\* exists, parses and carries one, else the working directory; and no config
\* file makes the call fail.
C19_VaultPriorityAsStated ==
  vaultEnv.done =>
    PriorityHolds(vaultEnv.env.OBSIDIAN_VAULT_PATH # <<>>, ConfigCarriesPath)

\* C19: the result is the value of OBSIDIAN_VAULT_PATH whenever the variable is
\* set to a non-empty string, else the vault_path of the config file whenever
\* the file exists, parses and carries a non-empty one, else the working
\* directory; and no config file, unreadable or invalid, makes the call fail.
C19_VaultPriority ==
  vaultEnv.done =>
    PriorityHolds(Truthy(vaultEnv.env.OBSIDIAN_VAULT_PATH),
                  ConfigCarriesPath /\ Truthy(ConfigSeen.vault_path))

\* A call that found the variable unset, the config file in place and broken,
\* and fell back to the working directory.
C19_Witness ==
  /\ vaultEnv.done
  /\ vaultEnv.env.OBSIDIAN_VAULT_PATH = <<>>
  /\ ConfigSeen.kind \in {"unreadable", "invalid", "null"}
  /\ vaultEnv.result.path = Cwd

(***************************************************************************)
(* Properties of the governance path, checked under SpecGov.               *)
(***************************************************************************)

\* The lines of the governance section of the output.
SectionLines == Split(doc.section)

\* The bullets of the document that hold a strong keyword, as they are trimmed.
StrongBullets ==
  { Trim(doc.lines[i]) : i \in { k \in 1..Len(doc.lines) :
        IsBullet(doc.lines[k]) /\ HasStrongKeyword(doc.lines[k]) } }

\* The section lists bullet b once under the 'Absolute Constraints' heading.
ListedOnce(b) ==
  \E h \in 1..Len(SectionLines) :
    /\ SectionLines[h] = <<"## Absolute Constraints">>
    /\ Cardinality({ k \in (h + 1)..Len(SectionLines) : SectionLines[k] = b }) = 1

\* C20 as stated: for any governance document, each bullet with a strong
\* keyword is listed in the governance section of the output under the
\* 'Absolute Constraints' heading, and is listed there once.
C20_AbsoluteConstraintsAsStated ==
  doc.done => \A b \in StrongBullets : ListedOnce(b)

\* C20: for a governance document whose extracted context fits the governance
\* budget, each bullet with a strong keyword, inside a matching heading or
\* not, is listed in the governance section of the output under the
\* 'Absolute Constraints' heading, and is listed there once.
C20_AbsoluteConstraints ==
  (doc.done /\ estimateTokens(doc.context) <= GOVERNANCE_TOKEN_BUDGET) =>
    \A b \in StrongBullets : ListedOnce(b)

\* A document within the budget whose strong bullet stands twice, under a
\* heading that matches no keyword.
C20_Witness ==
  /\ doc.done
  /\ estimateTokens(doc.context) <= GOVERNANCE_TOKEN_BUDGET
  /\ Len(doc.lines) = 3
  /\ ~HasCriticalKeyword(doc.lines[1]) /\ HeadingMatch(doc.lines[1])
  /\ doc.lines[2] = doc.lines[3]
  /\ StrongBullets # {}
  /\ \A b \in StrongBullets : ListedOnce(b)

(***************************************************************************)
(* Properties of the invocations and the cache file, checked under SpecIO. *)
(***************************************************************************)

\* The invocation of process p has come to its end.
Ended(p) == io.pc[p] = "done"

\* The artifacts process p has put into context.bootstrapFiles.
Artifacts(p) == DOMAIN io.files[p]

\* Something failed in the invocation of p: the CLI, the fallback read, a
\* governance file or the write of the cache file.
SomethingFailed(p) ==
  \/ io.local[p].cliFailed
  \/ io.local[p].acquireThrew
  \/ io.local[p].writeThrew
  \/ io.env.govUnreadable \cap DOMAIN governanceFiles # {}

\* C11: whatever fails inside an invocation, the handler returns to its caller
\* with an artifact in context.bootstrapFiles; a failed write of the cache file
\* and a failed fallback read end as OBSIDIAN_ERROR.md.
C11_ErrorContainment ==
  \A p \in Procs :
    Ended(p) =>
      /\ io.exit[p] = "returned"
      /\ Artifacts(p) # {}
      /\ (io.local[p].writeThrew \/ io.local[p].acquireThrew)
           => "OBSIDIAN_ERROR.md" \in Artifacts(p)

\* An invocation whose write of the cache file failed, ended.
C11_Witness ==
  \E p \in Procs :
    /\ Ended(p)
    /\ io.local[p].writeThrew
    /\ io.exit[p] = "returned"
    /\ "OBSIDIAN_ERROR.md" \in Artifacts(p)

\* The first and the last line of an artifact.
FirstLine(text) == Split(text)[1]

LastLine(text) == Split(text)[Len(Split(text))]

\* The daily artifact in its snapshot form: the header, the snapshot, the footer.
IsSnapshotForm(text) ==
  /\ FirstLine(text) = <<"# Obsidian Context Snapshot">>
  /\ LastLine(text) =
       <<"*Injected via Obsidian Pre-Prompt Hook (Governance + Daily Note)*">>
  /\ Split(text)[Len(Split(text)) - 1] = <<"---">>

\* The daily artifact in its empty-state form.
IsEmptyStateForm(text) ==
  /\ FirstLine(text) = <<"# Obsidian Context Snapshot">>
  /\ Len(Split(text)) >= 3
  /\ Split(text)[3] =
       <<"No log entries found for today yet. Use the obsidian-life-memory skill to log events.">>

\* C12: an invocation puts exactly one artifact, which is OBSIDIAN_DAILY.md in
\* its snapshot form, OBSIDIAN_DAILY.md in its empty-state form, or
\* OBSIDIAN_ERROR.md; it never puts both a daily and an error artifact.
C12_OneArtifact ==
  \A p \in Procs :
    Ended(p) =>
      \/ /\ Artifacts(p) = {"OBSIDIAN_DAILY.md"}
         /\ \A text \in {io.files[p]["OBSIDIAN_DAILY.md"]} :
              IsSnapshotForm(text) # IsEmptyStateForm(text)
      \/ /\ Artifacts(p) = {"OBSIDIAN_ERROR.md"}
         /\ FirstLine(io.files[p]["OBSIDIAN_ERROR.md"]) = <<"# Obsidian Memory Error">>

\* An invocation that had built a snapshot when the write of the cache file
\* failed: it ended with the error artifact alone.
C12_Witness ==
  \E p \in Procs :
    /\ Ended(p)
    /\ io.local[p].snapshot # <<>>
    /\ Artifacts(p) = {"OBSIDIAN_ERROR.md"}

\* The CLI failed in the invocation of p, and no fallback file is there.
NoDailySource(p) ==
  /\ io.local[p].cliFailed
  /\ io.env.paths \cap {"Daily", "memory", "root"} = {}

\* The empty-state message without a governance part.
EmptyStateMessage ==
  <<"# Obsidian Context Snapshot", LF, LF,
    "No log entries found for today yet. Use the obsidian-life-memory skill to log events.",
    LF, LF>>

\* C13: when the CLI read fails and no fallback file exists at any of the three
\* paths, the daily text is taken as empty and the acquisition raises no error:
\* an error artifact can only come from the write of the cache file, and with
\* no governance content the output is the empty-state message.
C13_MissingNote ==
  \A p \in Procs :
    (Ended(p) /\ NoDailySource(p)) =>
      /\ io.local[p].text = <<>>
      /\ ~io.local[p].acquireThrew
      /\ "OBSIDIAN_ERROR.md" \in Artifacts(p) => io.local[p].writeThrew
      /\ (io.local[p].governanceContext = <<>> /\ ~io.local[p].writeThrew)
           => io.files[p] = [f \in {"OBSIDIAN_DAILY.md"} |-> EmptyStateMessage]

\* An invocation without a daily source and without governance, ended with the
\* empty-state message, while the note does hold a line somewhere else.
C13_Witness ==
  \E p \in Procs :
    /\ Ended(p) /\ NoDailySource(p)
    /\ note.lines # <<>>
    /\ io.local[p].governanceContext = <<>>
    /\ io.files[p] = [f \in {"OBSIDIAN_DAILY.md"} |-> EmptyStateMessage]

\* C14: when the cache file is missing or malformed (anything that is not a
\* JSON object), loading yields the empty mapping, the rebuild proceeds, and
\* the file written back is a valid cache file with today's entry, on which an
\* invocation over the same content is a cache hit.
C14_CorruptCacheRecovery ==
  \A p \in Procs :
    (Ended(p) /\ io.local[p].wrote /\ io.local[p].loadedFile.kind # "object"
       /\ io.local[p].snapshot # <<>>) =>
      /\ io.local[p].loaded = [isArray |-> FALSE, mapping |-> <<>>]
      /\ io.local[p].persisted.kind = "object"
      /\ CacheHit(io.local[p].persisted.mapping, io.local[p].combinedHash)

\* C15: an invocation that saves, writes the mapping it loaded with the entry
\* of today created or overwritten: every other key of the loaded mapping, a
\* date or not, is in the written mapping with its value, and no key is new
\* but today's.
C15_NoEviction ==
  \A p \in Procs :
    (Ended(p) /\ io.local[p].wrote) =>
      /\ \A d \in DOMAIN io.local[p].loaded.mapping \ {today} :
           /\ d \in DOMAIN io.local[p].persisted.mapping
           /\ io.local[p].persisted.mapping[d] = io.local[p].loaded.mapping[d]
      /\ DOMAIN io.local[p].persisted.mapping \subseteq
           DOMAIN io.local[p].loaded.mapping \cup {today}

\* An invocation that loaded the entry of another day and an unknown key, and
\* saved the entry of today next to them.
C15_Witness ==
  \E p \in Procs :
    /\ Ended(p) /\ io.local[p].wrote
    /\ io.local[p].loaded.mapping = SeededMapping
    /\ DOMAIN io.local[p].persisted.mapping = {"2026-02-13", "schema", today}
    /\ io.file = io.local[p].persisted

\* C16: when two invocations have both rebuilt and saved, the cache file holds
\* the entry of the one that saved last, whatever the other one wrote: nothing
\* of the earlier save is merged or kept.
C16_LastWriterWins ==
  \A p, q \in Procs :
    (p # q /\ Ended(p) /\ Ended(q) /\ io.local[p].wrote /\ io.local[q].wrote
       /\ io.order = <<q, p>> /\ io.file.kind = "object") =>
      /\ today \in DOMAIN io.file.mapping
      /\ <<io.file.mapping[today]>> = io.local[p].entry

\* The lost update: both invocations loaded the same file, without an entry of
\* today, each rebuilt from the note as it found it, and the entry of the one
\* that saved first is gone from the file.
C16_Witness ==
  \E p, q \in Procs :
    /\ p # q /\ Ended(p) /\ Ended(q)
    /\ io.local[p].wrote /\ io.local[q].wrote
    /\ io.order = <<q, p>>
    /\ io.local[p].loadedFile = io.local[q].loadedFile
    /\ io.local[p].loadedFile.kind = "object"
    /\ today \notin DOMAIN io.local[p].loaded.mapping
    /\ io.local[p].entry # io.local[q].entry
    /\ <<io.file.mapping[today]>> = io.local[p].entry
    /\ <<io.file.mapping[today]>> # io.local[q].entry

\* C17: the cache file is saved atomically: at every point, also when an
\* invocation is interrupted during a save, the file holds a complete earlier
\* content or the complete new mapping, never a partial or empty text.
C17_AtomicSave == io.file.kind # "partial"

\* The budget the documentation promises: the override when it is set, else
\* 3000 tokens.
DocumentedBudget ==
  IF io.env.OBSIDIAN_BOOTSTRAP_TOKEN_BUDGET # <<>>
  THEN io.env.OBSIDIAN_BOOTSTRAP_TOKEN_BUDGET[1]
  ELSE 3000

\* C18: the snapshot an invocation emits is within the token budget, which is
\* the value of OBSIDIAN_BOOTSTRAP_TOKEN_BUDGET when the variable is set and
\* 3000 tokens otherwise.
C18_ConfigurableBudget ==
  \A p \in Procs :
    (Ended(p) /\ "OBSIDIAN_DAILY.md" \in Artifacts(p)) =>
      estimateTokens(io.local[p].snapshot) <= DocumentedBudget

\* The lines of the governance context as extractCriticalConstraints and
\* buildGovernanceContext leave it, before any budget is applied.
ContextLines == Split(doc.context)

\* The section of heading i as the claim bounds it: the lines from the heading
\* up to, and without, the next heading of equal or higher level.
SectionEnd(i) ==
  IF \E j \in (i + 1)..Len(doc.lines) :
       HeadingMatch(doc.lines[j]) /\ HashCount(doc.lines[j]) <= HashCount(doc.lines[i])
  THEN (CHOOSE j \in (i + 1)..Len(doc.lines) :
          /\ HeadingMatch(doc.lines[j])
          /\ HashCount(doc.lines[j]) <= HashCount(doc.lines[i])
          /\ \A k \in (i + 1)..(j - 1) :
               ~(HeadingMatch(doc.lines[k])
                 /\ HashCount(doc.lines[k]) <= HashCount(doc.lines[i]))) - 1
  ELSE Len(doc.lines)

\* C21: a section whose heading matches a priority keyword is captured in
\* full, nested lower-level sub-headings and their content included: every
\* line from the heading up to the next heading of equal or higher level is a
\* line of the extracted context.
C21_SectionCapture ==
  doc.done =>
    \A i \in 1..Len(doc.lines) :
      (HeadingMatch(doc.lines[i]) /\ HasCriticalKeyword(doc.lines[i])) =>
        \A j \in i..SectionEnd(i) :
          \E k \in 1..Len(ContextLines) : ContextLines[k] = doc.lines[j]

(***************************************************************************)
(* Properties of the CLI, checked under SpecCli.                           *)
(***************************************************************************)

\* The last command was the given one, and had the given argument.
LastWas(cmd) == cli.n > 0 /\ cli.last.argv # <<>> /\ cli.last.argv[1] = cmd

LastHad(flag) == \E i \in 2..Len(cli.last.argv) : cli.last.argv[i] = flag

\* The last command printed the given line.
Printed(line) == \E i \in 1..Len(cli.last.out) : cli.last.out[i] = line

\* C22: 'init --dry-run', with or without --yes and --enable-heartbeat, exits
\* with status 0, prints the planned actions and 'Done. (dry-run)', and
\* changes nothing: no config key, and no file or directory of the workspace.
C22_DryRunNoSideEffect ==
  (LastWas("init") /\ LastHad("--dry-run")) =>
    /\ cli.last.exit = 0
    /\ Printed(<<"Planned actions:">>)
    /\ Printed(<<"Done. (dry-run)">>)
    /\ cli.config = cli.last.before.config
    /\ cli.disk = cli.last.before.disk

\* The last command was a confirmed rollback that went through, right after an
\* init that exited with status 0.
RolledBackAfterInit ==
  /\ LastWas("rollback") /\ ~LastHad("--dry-run")
  /\ cli.last.exit = 0
  /\ Printed(<<"Rollback complete.">>)
  /\ cli.last.before.initBase # <<>>

\* C23 as stated: for any prior configuration and any init options, after a
\* successful init followed by a confirmed rollback each of the six keys has
\* the value it had before that init, and a key unset before is unset again.
C23_RoundTripAsStated ==
  RolledBackAfterInit =>
    \A k \in Keys : cli.config[k] = cli.last.before.initBase[1].config[k]

\* C23: after an init that applied its changes (no --dry-run, not cancelled)
\* followed by a confirmed rollback, a key that was unset or set to an empty or
\* blank value before the init is unset, and every other key has the value it
\* had before the init, without the white space around it.
C23_RoundTrip ==
  (RolledBackAfterInit /\ cli.last.before.initBase[1].applied) =>
    \A k \in Keys :
      \A was \in {cli.last.before.initBase[1].config[k]} :
        cli.config[k] = IF was.set /\ Trim(was.text) # <<>>
                        THEN Value(Trim(was.text)) ELSE Unset

\* An init that set up the heartbeat over a configuration with two keys set by
\* hand, rolled back: the two keys are back and the other four are unset.
C23_Witness ==
  /\ RolledBackAfterInit
  /\ cli.last.before.initBase[1].applied
  /\ cli.last.before.config # cli.last.before.initBase[1].config
  /\ cli.config = cli.last.before.initBase[1].config
  /\ cli.config["agents.defaults.heartbeat.every"] = Value(<<"1h">>)

\* The user enabled the heartbeat in so many words: --enable-heartbeat with
\* --yes, or y/yes at the question.
ExplicitlyEnabled ==
  \/ LastHad("--yes") /\ LastHad("--enable-heartbeat")
  \/ ~LastHad("--yes") /\ cli.last.answers.hb \in {"y", "Y", "yes", "YES", "Yes"}

\* C24: an init changes a heartbeat key, or the optional-context env entry,
\* only if the heartbeat was explicitly enabled; every other init leaves all
\* six keys as they were.
C24_HeartbeatOptIn ==
  LastWas("init") =>
    (cli.config # cli.last.before.config => ExplicitlyEnabled)

\* An init given --enable-heartbeat without --yes, answered n at the question
\* and y at the confirmation: it applied its changes and touched no key.
C24_Witness ==
  /\ LastWas("init")
  /\ LastHad("--enable-heartbeat") /\ ~LastHad("--yes")
  /\ cli.last.answers.hb = "n"
  /\ Printed(<<"Done.">>)
  /\ cli.disk.hook
  /\ cli.config = cli.last.before.config

\* C25: help, --help, -h and no command print the usage text and exit with
\* status 0; a command that is not known prints the usage text and exits with
\* status 1; an exception thrown by a command is reported as 'error: ...' and
\* the exit status is 1.
C25_Dispatch ==
  cli.n > 0 =>
    /\ (cli.last.argv = <<>> \/ LastWas("help") \/ LastWas("--help") \/ LastWas("-h"))
         => Printed(<<"Commands:">>) /\ cli.last.exit = 0
    /\ LastWas("bogus") => Printed(<<"Commands:">>) /\ cli.last.exit = 1
    /\ cli.last.threw
         => Printed(<<"error: ", cli.last.message>>) /\ cli.last.exit = 1

(***************************************************************************)
(* Properties of scripts/sync_live_copy.sh, checked under SpecTree.        *)
(***************************************************************************)

\* The file lies under .git/, local-overrides/ or scripts/__pycache__/ of
\* the tree.
UnderOverlay(path) ==
  \/ Len(path) > 1 /\ path[1] \in {".git", "local-overrides"}
  \/ Len(path) > 2 /\ path[1] = "scripts" /\ path[2] = "__pycache__"

\* The file lies under a directory of one of these names at any depth.
UnderOverlayAnywhere(path) ==
  \E i \in 1..(Len(path) - 1) :
    \/ path[i] \in {".git", "local-overrides"}
    \/ i > 1 /\ path[i - 1] = "scripts" /\ path[i] = "__pycache__"

\* The destination has the file as it had it before the run.
Untouched(path) ==
  /\ path \in DOMAIN tree.dst <=> path \in DOMAIN tree.before
  /\ path \in DOMAIN tree.dst => tree.dst[path] = tree.before[path]

\* The destination has the file exactly as the source has it.
Mirrored(path) ==
  /\ path \in DOMAIN tree.dst <=> path \in DOMAIN tree.src
  /\ path \in DOMAIN tree.dst => tree.dst[path] = tree.src[path]

\* C26 as stated: after the script the destination mirrors the source,
\* except that every path under the destination's .git/, local-overrides/
\* and scripts/__pycache__/ is as it was before.
C26_SyncAsStated ==
  tree.synced
    => \A path \in TreePaths :
         IF UnderOverlay(path) THEN Untouched(path) ELSE Mirrored(path)

\* C26: after the script every file under a directory named .git or
\* local-overrides, or under a directory __pycache__ of a directory scripts,
\* at any depth of the destination, is as it was before, and is not copied
\* from the source; every other file of the destination is as in the
\* source, and the files the source has not are deleted.
C26_SyncPreservesOverlays ==
  tree.synced
    => \A path \in TreePaths :
         IF UnderOverlayAnywhere(path) THEN Untouched(path)
                                       ELSE Mirrored(path)

\* The script ran on a destination that had an edited overlay file, a file
\* the source has not, and lacked a file of the source: the first is kept,
\* the second deleted, the third copied.
C26_Witness ==
  /\ tree.synced
  /\ <<"local-overrides", "notes.md">> \in DOMAIN tree.before
  /\ <<"local-overrides", "notes.md">> \in DOMAIN tree.src
  /\ tree.dst[<<"local-overrides", "notes.md">>] = "live"
  /\ <<"docs", "local-overrides">> \in DOMAIN tree.before \ DOMAIN tree.src
  /\ <<"docs", "local-overrides">> \notin DOMAIN tree.dst
  /\ <<"SKILL.md">> \in DOMAIN tree.src \ DOMAIN tree.before
  /\ tree.dst[<<"SKILL.md">>] = "canonical"

(***************************************************************************)
(* Properties of the rebuild pipeline, checked under SpecPipe.             *)
(***************************************************************************)

\* The wikilinks, the tags and the task lines of the daily note.
PipeTokens ==
  extractWikilinks(PipeText) \o extractTags(PipeText)
    \o extractTaskLines(Split(PipeText))

\* C27 (as stated): every wikilink, every tag and every checkbox task line
\* of the daily note is in the artifact the handler injects, whatever the
\* length of the note.
C27_EndToEndPreservation ==
  pipe.done =>
    \A tokens \in {PipeTokens} :
      \A i \in 1..Len(tokens) : Includes(pipe.artifact, tokens[i])

(***************************************************************************)
(* Properties of clipFromTailByLine, checked under SpecTrunc.              *)
(***************************************************************************)

RECURSIVE SuffixCost(_, _)
\* The cost of the lines from index k on: their lengths and a line feed each.
SuffixCost(lines, k) ==
  IF k > Len(lines) THEN 0
  ELSE Chars(lines[k]) + 1 + SuffixCost(lines, k + 1)

\* The first index of the longest suffix of whole lines that fits.
LongestSuffixStart(lines, budget) ==
  CHOOSE k \in 1..(Len(lines) + 1) :
    /\ SuffixCost(lines, k) <= budget
    /\ \A j \in 1..(k - 1) : SuffixCost(lines, j) > budget

\* C28 (as stated): when the input is over the budget, the lines that
\* clipFromTailByLine selects are the longest suffix of the input lines whose
\* cost fits floor(0.65 * maxChars): no line before a line left out is
\* selected.
C28_TailSelection ==
  OverBudget =>
    \A lines \in {Split(TruncText)}, budget \in {(trunc.maxChars * 65) \div 100} :
      PickFrom(lines, Len(lines), 0, budget)
        = LongestSuffixStart(lines, budget)..Len(lines)

(***************************************************************************)
(* The checkpoint of today's entry, checked under Spec.                    *)
(***************************************************************************)

\* C29 (as stated): today's entry, once written, carries the hash of the
\* daily text the last invocation read, and its lastLineCount is the number
\* of lines of that note (n for a note of n lines, smaller than before when
\* the note shrank); an invocation that hits the cache leaves the checkpoint
\* as it was.
C29_CheckpointConsistency ==
  today \in DOMAIN state =>
    /\ state[today].noteHash = computeSha256(NormalizeEol(NoteText(run.note)))
    /\ state[today].lastLineCount = Len(run.note.lines)
    /\ run.hit => state[today].lastLineCount = run.priorLineCount

(***************************************************************************)
(* Entries of other dates, checked under SpecIO: the two invocations of a  *)
(* behaviour are the two runs.                                             *)
(***************************************************************************)

\* The invocation came to its end.
Finished(p) == io.pc[p] = "done"

\* The two invocations read the same daily text, the same governance and
\* the same entry of today (or none), whatever else the cache files they
\* loaded hold.
SameInputs(p, q) ==
  /\ io.local[p].text = io.local[q].text
  /\ io.local[p].acquireThrew = io.local[q].acquireThrew
  /\ io.local[p].governanceContext = io.local[q].governanceContext
  /\ today \in DOMAIN io.local[p].loaded.mapping
       <=> today \in DOMAIN io.local[q].loaded.mapping
  /\ today \in DOMAIN io.local[p].loaded.mapping
       => io.local[p].loaded.mapping[today] = io.local[q].loaded.mapping[today]

\* C30: two invocations that read the same daily text, the same governance
\* and the same entry of today put the same artifacts and write the same
\* entry for today, whatever entries of other dates each of them loaded.
C30_StaleEntriesNoInfluence ==
  \A p \in Procs, q \in Procs :
    Finished(p) /\ Finished(q) /\ SameInputs(p, q)
      => /\ io.files[p] = io.files[q]
         /\ io.local[p].entry = io.local[q].entry

\* One invocation loaded the entry of the day before, the other loaded no
\* entry; both read the same note of two lines, rebuilt and put the same
\* snapshot.
C30_Witness ==
  \E p \in Procs, q \in Procs :
    /\ Finished(p) /\ Finished(q) /\ SameInputs(p, q)
    /\ "2026-02-13" \in DOMAIN io.local[p].loaded.mapping
    /\ io.local[q].loaded.mapping = <<>>
    /\ Len(Split(io.local[p].text)) = 2
    /\ io.local[p].entry # <<>> /\ io.local[q].entry # <<>>
    /\ "OBSIDIAN_DAILY.md" \in DOMAIN io.files[p]
    /\ io.files[p] = io.files[q]

(***************************************************************************)
(* The composition of the daily content, checked under SpecPipe.           *)
(***************************************************************************)

\* The first k lines of a text, trimmed.
LinesPrefix(text, k) == Trim(Join(SubSeq(Split(text), 1, k), <<LF>>))

\* The part is made of leading whole lines of the text.
IsLinePrefixOf(part, text) ==
  \E k \in 0..Len(Split(text)) : part = LinesPrefix(text, k)

\* The 'Since you last spoke:' block with the first k lines of the delta.
SinceBlock(k) == Trim(SinceHeader \o LinesPrefix(pipe.delta, k))

\* C31: the daily content is within the daily sub-budget; with a delta it
\* begins with the 'Since you last spoke:' block, which holds the leading
\* lines of the delta that fit the sub-budget (all of them when header and
\* delta fit), and the snapshot of the truncator follows the block, after
\* the separator, only if the block left budget; without a delta the daily
\* content is the snapshot alone, cut by lines to the sub-budget.
C31_DailyComposition ==
  pipe.done =>
    /\ estimateTokens(pipe.daily) <= DAILY_TOKEN_BUDGET
    /\ pipe.delta = <<>> =>
         /\ IsLinePrefixOf(pipe.daily, pipe.truncated)
         /\ estimateTokens(pipe.truncated) <= DAILY_TOKEN_BUDGET
              => pipe.daily = pipe.truncated
    /\ pipe.delta # <<>> =>
         \E k \in 0..Len(Split(pipe.delta)) :
           \E block \in {SinceBlock(k)} :
             /\ estimateTokens(block) <= DAILY_TOKEN_BUDGET
             /\ estimateTokens(SinceHeader \o pipe.delta) <= DAILY_TOKEN_BUDGET
                  => k = Len(Split(pipe.delta))
             /\ \/ pipe.daily = block
                \/ /\ estimateTokens(block) < DAILY_TOKEN_BUDGET
                   /\ \E j \in 1..Len(Split(pipe.truncated)) :
                        /\ LinesPrefix(pipe.truncated, j) # <<>>
                        /\ pipe.daily = block \o Separator
                                          \o LinesPrefix(pipe.truncated, j)

\* A rebuild with a delta that left budget: the daily content is the block
\* with the whole delta, the separator and a snapshot cut to what remained.
C31_Witness ==
  /\ pipe.done
  /\ pipe.delta # <<>>
  /\ pipe.daily # SinceBlock(Len(Split(pipe.delta)))
  /\ Len(pipe.daily) > Len(SinceBlock(Len(Split(pipe.delta))))
  /\ SubSeq(pipe.daily, 1, Len(SinceBlock(Len(Split(pipe.delta)))))
       = SinceBlock(Len(Split(pipe.delta)))
  /\ ~Includes(pipe.daily, pipe.truncated)

(***************************************************************************)
(* The assembled snapshot, checked under SpecPipe.                         *)
(***************************************************************************)

\* The snapshot assembled from a governance part and a daily part: a part
\* that is empty is left out with its header and the separator.
Assembled(gov, daily) ==
  IF gov = <<>> /\ daily = <<>> THEN <<>>
  ELSE IF gov = <<>> THEN DailyHeader \o daily
  ELSE IF daily = <<>> THEN GovHeader \o gov
  ELSE GovHeader \o gov \o Separator \o DailyHeader \o daily

\* What is left of the total budget after the governance block.
RemainingAfter(gov) ==
  IF gov = <<>> THEN MAX_SNAPSHOT_TOKENS
  ELSE MAX_SNAPSHOT_TOKENS - estimateTokens(GovHeader \o gov)

\* C32: the snapshot is the governance block, then the separator, then the
\* daily block; the governance content is cut by lines to its budget first
\* (and is whole when it fits), the daily content is cut to at most what
\* the governance block left of the total budget; an empty part is left
\* out with its header and the separator, and two empty parts give the
\* empty text.
C32_GovernancePriority ==
  pipe.done =>
    \E i \in 0..Len(Split(pipe.governance)), j \in 0..Len(Split(pipe.daily)) :
      \E gov \in {LinesPrefix(pipe.governance, i)},
         daily \in {LinesPrefix(pipe.daily, j)} :
        /\ estimateTokens(gov) <= GOVERNANCE_TOKEN_BUDGET
        /\ estimateTokens(pipe.governance) <= GOVERNANCE_TOKEN_BUDGET
             => gov = pipe.governance
        /\ estimateTokens(daily) <= RemainingAfter(gov)
        /\ estimateTokens(pipe.daily) <= RemainingAfter(gov)
             => daily = pipe.daily
        /\ pipe.snapshot = Assembled(gov, daily)

\* Both blocks are in the snapshot, and both were cut.
C32_Witness ==
  /\ pipe.done
  /\ Includes(pipe.snapshot, GovHeader)
  /\ Includes(pipe.snapshot, Separator \o DailyHeader)
  /\ ~Includes(pipe.snapshot, pipe.governance)
  /\ ~Includes(pipe.snapshot, pipe.daily)

(***************************************************************************)
(* The acquisition of the daily text, checked under SpecIO.                *)
(***************************************************************************)

\* The step is the one in which invocation p reads its inputs.
Acquires(p) == io.pc[p] = "idle" /\ io'.pc[p] # "idle"

\* The invocation took this text after reading these fallback files.
Took(p, text, read) ==
  /\ ~io'.local[p].acquireThrew
  /\ io'.local[p].text = text
  /\ io'.local[p].read = read

\* C33: when the CLI succeeds the daily text is what it printed and no
\* fallback file is read; when it fails, the text is the content of the
\* first file that exists of Daily/<date>.md, memory/<date>.md and
\* <date>.md, in this order, and no other file is read; it is the empty
\* text when none exists.  (A file that exists and cannot be read ends the
\* acquisition with an exception.)
C33_AcquisitionOrder ==
  [][\A p \in Procs :
       Acquires(p) =>
         IF io.env.cli THEN Took(p, NoteText(note), {})
         ELSE IF ~io.env.readable /\ io.env.paths # {}
              THEN io'.local[p].acquireThrew
         ELSE IF "Daily" \in io.env.paths
              THEN Took(p, NoteText(note), {"Daily"})
         ELSE IF "memory" \in io.env.paths
              THEN Took(p, <<"memory", LF>> \o NoteText(note), {"memory"})
         ELSE IF "root" \in io.env.paths
              THEN Took(p, <<"root", LF>> \o NoteText(note), {"root"})
         ELSE Took(p, <<>>, {})]_vars

\* The CLI failed, memory/<date>.md and <date>.md exist, and the invocation
\* came to its end with the text of the first of them and without reading
\* the second.
C33_Witness ==
  \E p \in Procs :
    /\ io.pc[p] = "done"
    /\ io.local[p].cliFailed
    /\ io.env.paths = {"memory", "root"}
    /\ io.local[p].read = {"memory"}
    /\ Includes(io.local[p].text, <<"memory", LF, "a">>)

(***************************************************************************)
(* The governance context of a vault, checked under SpecFiles.             *)
(***************************************************************************)

\* The constraints the context should show for a file: those extracted from
\* it when the file is there and could be read, none otherwise.
ShownFor(f) ==
  IF f \in DOMAIN governanceFiles \ doc.unreadable
  THEN extractCriticalConstraints(governanceFiles[f])
  ELSE <<>>

\* The section of a file under its label ('' when the file shows nothing).
LabelledSection(f, label) ==
  IF ShownFor(f) # <<>> THEN <<label, LF>> \o ShownFor(f) ELSE <<>>

\* C34: the governance context is the sections of SOUL.md, MEMORY.md,
\* AGENTS.md and TOOLS.md in this order, each the friendly label of the file
\* over the constraints extracted from it, two line feeds between sections;
\* a file that is missing, empty or without extracted constraints has no
\* section and its label is nowhere in the context.
C34_GovernanceOrder ==
  doc.done =>
    /\ doc.context =
         Join(FilterEmpty(
                << LabelledSection("SOUL.md", "## Behavioral Constraints (SOUL)"),
                   LabelledSection("MEMORY.md",
                                   "## Long-Term Rules & Protocols (MEMORY)"),
                   LabelledSection("AGENTS.md", "## Operational Protocols (AGENTS)"),
                   LabelledSection("TOOLS.md", "## Tool Usage Patterns (TOOLS)") >>),
              <<LF, LF>>)
    /\ \A f \in {"SOUL.md", "MEMORY.md", "AGENTS.md", "TOOLS.md"} :
         (f \notin DOMAIN governanceFiles
            \/ governanceFiles[f] \in {<<>>, <<"a">>})
           => ~Includes(doc.context, <<fileLabels[f]>>)

\* SOUL.md is missing, MEMORY.md holds no constraint, TOOLS.md is empty:
\* the context is the section of AGENTS.md alone.
C34_Witness ==
  /\ doc.done
  /\ doc.unreadable = {}
  /\ DOMAIN governanceFiles = {"MEMORY.md", "AGENTS.md", "TOOLS.md"}
  /\ governanceFiles["MEMORY.md"] = <<"a">>
  /\ governanceFiles["TOOLS.md"] = <<>>
  /\ governanceFiles["AGENTS.md"] = <<"-", " ", "NEVER", " ", "a">>
  /\ SubSeq(doc.context, 1, 2) = <<"## Operational Protocols (AGENTS)", LF>>
  /\ Includes(doc.context, <<"-", " ", "NEVER", " ", "a">>)
  /\ \A f \in {"SOUL.md", "MEMORY.md", "TOOLS.md"} :
       ~Includes(doc.context, <<fileLabels[f]>>)

(***************************************************************************)
(* The event guard, checked under SpecEvents.                              *)
(***************************************************************************)

\* C35: a call of the hook with an event of any type other than
\* 'agent:bootstrap' leaves context.bootstrapFiles and the cache mapping as
\* they were and reads nothing (the record of what the last invocation read
\* stays as it was).
C35_OtherEventsIgnored ==
  [][(\E type \in EventTypes \ {"agent:bootstrap"} : handlerOn(type))
       => UNCHANGED <<bootstrapFiles, state, run>>]_vars

\* The first event was a bootstrap that built today's entry, the note grew,
\* and the second event was ignored: the entry and the record of the read
\* are those of the first.
C35_Witness ==
  /\ clock = 2
  /\ run.ran /\ ~run.hit
  /\ today \in DOMAIN state
  /\ state[today].lastUpdatedIso = 0
  /\ note # run.note
  /\ edits.appended # <<>>

\* C36: an 'init' without --yes and without --dry-run that is not answered
\* y or yes at 'Apply these changes?' prints 'Cancelled.' and leaves every
\* config key and every file of the workspace (live copy, hook, templates,
\* install snapshot) as it was; a 'rollback' without --dry-run that is not
\* confirmed leaves every config key as it was.
C36_NoChangeBeforeConfirmation ==
  /\ (LastWas("init") /\ ~LastHad("--yes") /\ ~LastHad("--dry-run")
        /\ cli.last.answers.ok = "n")
       => /\ Printed(<<"Cancelled.">>)
          /\ cli.config = cli.last.before.config
          /\ cli.disk = cli.last.before.disk
  /\ (LastWas("rollback") /\ ~LastHad("--dry-run")
        /\ cli.last.answers.ok = "n")
       => cli.config = cli.last.before.config

\* The user asked for the heartbeat at the first question and then answered
\* n at 'Apply these changes?': the init was cancelled.
C36_Witness ==
  /\ LastWas("init") /\ ~LastHad("--yes") /\ ~LastHad("--dry-run")
  /\ cli.last.answers.hb = "y"
  /\ cli.last.answers.ok = "n"
  /\ Printed(<<"Cancelled.">>)
  /\ cli.disk = FreshDisk

\* C37: after every 'init' without --dry-run, also one that failed in the
\* sync or in one of the config settings, every
\* tracked config key this init has changed has its value of before the init
\* in an install snapshot on the disk.
C37_SnapshotCoversChanges ==
  (LastWas("init") /\ ~LastHad("--dry-run"))
    => \A key \in Keys :
         cli.config[key] # cli.last.before.config[key]
           => /\ cli.disk.install # <<>>
              /\ cli.disk.install[1].keys[key]
                   = snapshotConfig(cli.last.before.config)[key]

\* C38: a 'rollback', with or without --dry-run, that finds no install
\* snapshot reports 'No install snapshot found', exits with status 1, asks
\* for no confirmation, and changes no config key.
C38_RollbackWithoutSnapshot ==
  (LastWas("rollback") /\ cli.last.before.disk.install = <<>>)
    => /\ \E i \in 1..Len(cli.last.out) :
            /\ cli.last.out[i] # <<>>
            /\ cli.last.out[i][Len(cli.last.out[i])] = "No install snapshot found"
       /\ cli.last.exit = 1
       /\ ~Printed(RollbackQuestion)
       /\ ~Printed(<<"Cancelled.">>)
       /\ cli.config = cli.last.before.config
       /\ cli.disk = cli.last.before.disk

\* A rollback without --dry-run after an init that failed in its third
\* setConfig: keys are set, and there is no install snapshot.
C38_Witness ==
  /\ LastWas("rollback") /\ ~LastHad("--dry-run")
  /\ cli.last.before.disk.install = <<>>
  /\ cli.last.before.disk.hook
  /\ cli.config # NothingSet
  /\ cli.last.exit = 1

(***************************************************************************)
(* Properties of the dates of one invocation, checked under SpecDate.      *)
(***************************************************************************)

\* C39: the date an invocation uses as the key of the cache and the date in
\* the name of the daily file its fallback looks for are the same day, also
\* when midnight passes while the content-source command runs, so that the
\* entry it stores under a date is made of the daily note of that date.
C39_DateConsistency ==
  day.inv.source = "fallback" => day.inv.filename = day.inv.today

====
